---------------------------- MODULE Spec2Model ----------------------------
(***************************************************************************)
(* astro-loader-glob-frontmatter: layered frontmatter resolution and H1    *)
(* extraction.                                                             *)
(*                                                                         *)
(* Strings of the program (markdown bodies, rendered HTML, file paths) are *)
(* sequences of one-character strings.  Metadata records are functions     *)
(* from key names to tagged values.                                        *)
(***************************************************************************)
EXTENDS Integers, Sequences, FiniteSets, TLC

VARIABLES
    pc,         \* position of the load cycle / of the harness
    central,    \* the centralized frontmatter file: option, existence, parsed document
    tree,       \* directories under basePath: their frontmatter documents and subdirectories
    watcher,    \* whether context.watcher is present
    files,      \* the content files glob() discovers: filePath, declared data, file text
    fmMap,      \* the map built by loadFrontmatterMap for this cycle
    watched,    \* the calls of context.watcher.add, in order
    validated,  \* the calls of the real parseData, in order
    stored,     \* the calls of the real store.set, in order
    failure,    \* the error load() rejects with, if any
    mTarget,    \* deepMerge harness: first argument
    mSource,    \* deepMerge harness: second argument
    mResult,    \* deepMerge harness: returned record
    mAgain,     \* deepMerge harness: the record returned by merging mSource once more
    heap,       \* deepMerge harness: the objects in memory, and where the call's are
    markdown,   \* extractH1 harness: argument
    h1,         \* extractH1 harness: returned value
    parts,      \* stripH1Html and heading text harnesses: the pieces the text is made of
    markup,     \* stripH1Html harness: argument
    stripped,   \* stripH1Html harness: returned markup
    document,   \* flattenToMap harness: argument
    flat        \* flattenToMap harness: returned map

\* the variables of the load cycle but pc, and those of the harnesses
loaderVars == <<central, tree, watcher, files, fmMap, watched, validated, stored, failure>>
mergeVars == <<mTarget, mSource, mResult, mAgain, heap>>
h1Vars == <<markdown, h1>>
htmlVars == <<parts, markup, stripped>>
flattenVars == <<document, flat>>
harnessVars == <<mergeVars, h1Vars, htmlVars, flattenVars>>

vars == <<pc, loaderVars, harnessVars>>

-----------------------------------------------------------------------------
(* Bounds of the model *)

\* numbers used as scalar metadata values are 1..MaxNum
MaxNum == 2
\* longest markdown text handed to the extractH1 harness
MaxLen == 6

-----------------------------------------------------------------------------
(* JSON-like values *)

Num(n) == [t |-> "num", n |-> n]
Str(s) == [t |-> "str", s |-> s]
Null == [t |-> "null"]
Arr(a) == [t |-> "arr", a |-> a]
Rec(r) == [t |-> "rec", r |-> r]

\* the empty record {}
EmptyData == [k \in {} |-> Null]

\* an optional value: Some(v), or Absent for undefined, for the null extractH1 returns,
\* for a file that cannot be read
Absent == [t |-> "absent"]
Some(v) == [t |-> "some", v |-> v]

\* result[key] = value
Put(f, k, v) == [x \in (DOMAIN f) \cup {k} |-> IF x = k THEN v ELSE f[x]]

\* typeof v === 'object' && v !== null && !Array.isArray(v)
IsPlainObject(v) == v.t = "rec"

\* JavaScript truthiness of a value (!v is its negation)
Truthy(v) ==
    CASE v.t = "absent" -> FALSE
      [] v.t = "null" -> FALSE
      [] v.t = "num" -> v.n # 0
      [] v.t = "str" -> v.s # <<>>
      [] OTHER -> TRUE

-----------------------------------------------------------------------------
(* src/merge.ts *)

BlockedKeys == {"__proto__", "constructor"}

RECURSIVE deepMerge(_, _)
RECURSIVE mergeKeys(_, _, _)
\* the for loop over Object.keys(source), for the keys not yet visited
mergeKeys(result, source, keys) ==
    IF keys = {} THEN result
    ELSE LET key == CHOOSE k \in keys : TRUE
             rest == keys \ {key}
             tVal == result[key]
             sVal == source[key]
         IN  IF key \in BlockedKeys THEN mergeKeys(result, source, rest)
             ELSE IF /\ key \in DOMAIN result
                     /\ IsPlainObject(tVal)
                     /\ IsPlainObject(sVal)
                  THEN mergeKeys(Put(result, key, Rec(deepMerge(tVal.r, sVal.r))), source, rest)
                  ELSE mergeKeys(Put(result, key, sVal), source, rest)

\* deepMerge gone shallow, as {...target, ...source} without the blocked keys of source:
\* two records under one key are not combined
deepMergeShallow(target, source) ==
    [k \in (DOMAIN target) \cup ((DOMAIN source) \ BlockedKeys) |->
        IF k \in (DOMAIN source) \ BlockedKeys THEN source[k] ELSE target[k]]

\* deepMerge appending the arrays of source to those of target instead of replacing them
deepMergeConcat(target, source) ==
    [k \in (DOMAIN target) \cup ((DOMAIN source) \ BlockedKeys) |->
        IF k \notin (DOMAIN source) \ BlockedKeys THEN target[k]
        ELSE IF k \in DOMAIN target /\ target[k].t = "arr" /\ source[k].t = "arr"
             THEN Arr(target[k].a \o source[k].a)
             ELSE IF k \in DOMAIN target /\ target[k].t = "rec" /\ source[k].t = "rec"
                  THEN Rec(deepMergeShallow(target[k].r, source[k].r))
                  ELSE source[k]]

\* result is {...target} at first
deepMerge(target, source) == mergeKeys(target, source, DOMAIN source)

-----------------------------------------------------------------------------
(* src/merge.ts on objects in memory: cells is the sequence of the objects allocated *)
(* so far, an object a function from its keys to scalars and references            *)

Ref(a) == [t |-> "ref", a |-> a]

\* object[key] = v on the object at address a
setField(cells, a, key, v) == [cells EXCEPT ![a] = Put(cells[a], key, v)]

\* an object literal: the record rec allocated with its nested records, giving the
\* cells and the address of the new object
RECURSIVE allocRecord(_, _)
RECURSIVE allocKeys(_, _, _, _)
allocNested(rec, keys, obj, k, nested) ==
    allocKeys(nested.cells, rec, keys \ {k}, Put(obj, k, Ref(nested.at)))

allocField(cells, rec, keys, obj, k) ==
    IF rec[k].t = "rec"
    THEN allocNested(rec, keys, obj, k, allocRecord(cells, rec[k].r))
    ELSE allocKeys(cells, rec, keys \ {k}, Put(obj, k, rec[k]))

allocKeys(cells, rec, keys, obj) ==
    IF keys = {} THEN [cells |-> Append(cells, obj), at |-> Len(cells) + 1]
    ELSE allocField(cells, rec, keys, obj, CHOOSE k \in keys : TRUE)

allocRecord(cells, rec) == allocKeys(cells, rec, DOMAIN rec, EmptyData)

\* the memory a call deepMerge(A, B) starts from
InputHeapOf(t, allocated) ==
    [cells |-> allocated.cells, target |-> t, source |-> allocated.at, result |-> 0]

InputHeapWith(allocated, B) == InputHeapOf(allocated.at, allocRecord(allocated.cells, B))

InputHeap(A, B) == InputHeapWith(allocRecord(<<>>, A), B)

\* the record an object holds, read through its references
RECURSIVE ValueAt(_, _)
ValueAt(cells, a) ==
    [k \in DOMAIN cells[a] |->
        IF cells[a][k].t = "ref" THEN Rec(ValueAt(cells, cells[a][k].a)) ELSE cells[a][k]]

RECURSIVE deepMergeH(_, _, _)
RECURSIVE mergeKeysH(_, _, _, _)
\* result[key] = deepMerge(tVal, sVal), the nested call having returned nested
setMerged(r, s, keys, key, nested) ==
    mergeKeysH(setField(nested.cells, r, key, Ref(nested.at)), r, s, keys \ {key})

\* one turn of the for loop, for key of the source object at s, result being at r
mergeKeyH(cells, r, s, keys, key) ==
    IF key \in BlockedKeys THEN mergeKeysH(cells, r, s, keys \ {key})
    ELSE IF /\ key \in DOMAIN cells[r]
            /\ cells[r][key].t = "ref"
            /\ cells[s][key].t = "ref"
         THEN setMerged(r, s, keys, key, deepMergeH(cells, cells[r][key].a, cells[s][key].a))
         ELSE mergeKeysH(setField(cells, r, key, cells[s][key]), r, s, keys \ {key})

\* the for loop over Object.keys(source), for the keys not yet visited
mergeKeysH(cells, r, s, keys) ==
    IF keys = {} THEN [cells |-> cells, at |-> r]
    ELSE mergeKeyH(cells, r, s, keys, CHOOSE k \in keys : TRUE)

\* deepMerge with result = target, no copy: the loop writes into the target object
deepMergeHInPlace(cells, t, s) == mergeKeysH(cells, t, s, DOMAIN cells[s])

\* const result = { ...target }: a new object with the fields of the target
deepMergeH(cells, t, s) == mergeKeysH(Append(cells, cells[t]), Len(cells) + 1, s, DOMAIN cells[s])

\* the memory once the call has returned
Returned(h, r) == [h EXCEPT !.cells = r.cells, !.result = r.at]

-----------------------------------------------------------------------------
(* String primitives of the runtime *)

Min(S) == CHOOSE x \in S : \A y \in S : x <= y

\* s.slice(n): s without its first n characters
Slice(s, n) == SubSeq(s, n + 1, Len(s))

\* pat occurs in s at index i (1-based)
MatchesAt(s, pat, i) ==
    /\ i >= 1
    /\ i + Len(pat) - 1 <= Len(s)
    /\ SubSeq(s, i, i + Len(pat) - 1) = pat

\* index of the first occurrence of pat in s at or after from, 0 when there is none
IndexFrom(s, pat, from) ==
    LET at == {i \in from..Len(s) : MatchesAt(s, pat, i)}
    IN  IF at = {} THEN 0 ELSE Min(at)

\* \s of a regular expression, and [^\S\n]
Whitespace == {" ", "\t", "\n"}
HorizontalSpace == Whitespace \ {"\n"}

\* String.prototype.trim
RECURSIVE trim(_)
trim(s) ==
    IF s = <<>> THEN s
    ELSE IF Head(s) \in Whitespace THEN trim(Tail(s))
    ELSE IF s[Len(s)] \in Whitespace THEN trim(SubSeq(s, 1, Len(s) - 1))
    ELSE s

-----------------------------------------------------------------------------
(* src/h1.ts *)

\* the backtick character (the module's lexer does not take it in a string literal)
Backtick == "BACKTICK"

NoMatch == [end |-> 0, rep |-> <<>>]

\* One match attempt of a flattenInlineMarkdown pattern at index i of text: the index of
\* the last matched character (0: no match here) and the replacement text.
\*   image   /!\[([^\]]*)\]\([^)]*\)/     link    /\[([^\]]*)\]\([^)]*\)/
\*   bold    /(\*\*|__)(.*?)\1/           italic  /(\*|_)(.*?)\1/
\*   strike  /~~(.*?)~~/                  code    /B([^B]+)B/ with B the backtick
\* [alt](url) with its "[" at index i, its "]" at close and its ")" at paren
BracketAt(text, i, close, paren) ==
    IF /\ MatchesAt(text, <<"[">>, i)
       /\ close # 0
       /\ MatchesAt(text, <<"(">>, close + 1)
       /\ paren # 0
    THEN [end |-> paren, rep |-> SubSeq(text, i + 1, close - 1)]
    ELSE NoMatch

ParenAfter(text, close) == IF close = 0 THEN 0 ELSE IndexFrom(text, <<")">>, close + 2)

BracketClose(text, i, close) == BracketAt(text, i, close, ParenAfter(text, close))

BracketMatch(text, i) == BracketClose(text, i, IndexFrom(text, <<"]">>, i + 1))

\* delim (.*?) delim with the closing delimiter at close: the lazy group ends at the
\* nearest closing delimiter; "." does not cross a line terminator
DelimAt(text, i, delim, close) ==
    IF /\ MatchesAt(text, delim, i)
       /\ close # 0
       /\ \A j \in (i + Len(delim))..(close - 1) : text[j] # "\n"
    THEN [end |-> close + Len(delim) - 1, rep |-> SubSeq(text, i + Len(delim), close - 1)]
    ELSE NoMatch

DelimMatch(text, i, delim) == DelimAt(text, i, delim, IndexFrom(text, delim, i + Len(delim)))

\* an alternation (a|b) of delimiters: the first alternative that matches
RECURSIVE DelimAny(_, _, _)
DelimAny(text, i, delims) ==
    IF delims = <<>> THEN NoMatch
    ELSE IF MatchesAt(text, Head(delims), i) THEN DelimMatch(text, i, Head(delims))
    ELSE DelimAny(text, i, Tail(delims))

\* B([^B]+)B with the closing backtick at close
CodeAt(text, i, close) ==
    IF MatchesAt(text, <<Backtick>>, i) /\ close > i + 1
    THEN [end |-> close, rep |-> SubSeq(text, i + 1, close - 1)]
    ELSE NoMatch

Delimiters(kind) ==
    CASE kind = "bold" -> << <<"*", "*">>, <<"_", "_">> >>
      [] kind = "italic" -> << <<"*">>, <<"_">> >>
      [] kind = "strike" -> << <<"~", "~">> >>

PatternMatch(kind, text, i) ==
    CASE kind = "image" ->
            IF MatchesAt(text, <<"!">>, i)
            THEN BracketMatch(text, i + 1)
            ELSE NoMatch
      [] kind = "link" -> BracketMatch(text, i)
      [] kind = "code" -> CodeAt(text, i, IndexFrom(text, <<Backtick>>, i + 1))
      [] OTHER -> DelimAny(text, i, Delimiters(kind))

\* text.replace(/pattern/g, '$group'): leftmost matches, scanning on after each match
RECURSIVE replaceAll(_, _, _)
\* m: the match attempt at index i
replaceAt(kind, text, i, m) ==
    IF m.end # 0
    THEN m.rep \o replaceAll(kind, text, m.end + 1)
    ELSE <<text[i]>> \o replaceAll(kind, text, i + 1)

replaceAll(kind, text, i) ==
    IF i > Len(text) THEN <<>> ELSE replaceAt(kind, text, i, PatternMatch(kind, text, i))

\* flattenInlineMarkdown without the replace of images: an image is taken for a link
flattenWithoutImages(text) ==
    trim(replaceAll("code",
         replaceAll("strike",
         replaceAll("italic",
         replaceAll("bold",
         replaceAll("link", text, 1), 1), 1), 1), 1))

\* the chain of .replace calls, images first, then .trim()
flattenInlineMarkdown(text) ==
    trim(replaceAll("code",
         replaceAll("strike",
         replaceAll("italic",
         replaceAll("bold",
         replaceAll("link",
         replaceAll("image", text, 1), 1), 1), 1), 1), 1))

\* H1_RE = /^(?:[^\S\n]*\n)*# (.+)\n?/ run on markdown: the length of match[0] and the
\* capture group, or len = 0 when the expression does not match.
\* index of the first character at or after p that is not horizontal space, 0 when
\* the text ends first
RECURSIVE SkipSpace(_, _)
SkipSpace(md, p) ==
    IF p > Len(md) THEN 0
    ELSE IF md[p] \in HorizontalSpace THEN SkipSpace(md, p + 1)
    ELSE p

\* "# (.+)\n?" at p, the line ending at the newline at nl (0: at the end of the text)
HeadingAt(md, p, nl) ==
    [len |-> IF nl = 0 THEN Len(md) ELSE nl,
     group |-> SubSeq(md, p + 2, IF nl = 0 THEN Len(md) ELSE nl - 1)]

RECURSIVE H1_RE_from(_, _)
\* H1_RE with the m flag: "^" matches at the start of any line, so a line that is no
\* heading is passed over
H1_RE_lineMultiline(md, p, q) ==
    IF q # 0 /\ md[q] = "\n"
    THEN H1_RE_from(md, q + 1)
    ELSE IF /\ MatchesAt(md, <<"#", " ">>, p)
            /\ p + 2 <= Len(md)
            /\ md[p + 2] # "\n"
         THEN HeadingAt(md, p, IndexFrom(md, <<"\n">>, p + 2))
         ELSE IF IndexFrom(md, <<"\n">>, p) # 0
              THEN H1_RE_from(md, IndexFrom(md, <<"\n">>, p) + 1)
              ELSE [len |-> 0, group |-> <<>>]

\* p: index after the blank lines consumed so far by (?:[^\S\n]*\n)*; q: where the
\* horizontal space from p on stops
H1_RE_line(md, p, q) ==
    IF q # 0 /\ md[q] = "\n"
    THEN H1_RE_from(md, q + 1)
    ELSE IF /\ MatchesAt(md, <<"#", " ">>, p)
            /\ p + 2 <= Len(md)
            /\ md[p + 2] # "\n"
         THEN HeadingAt(md, p, IndexFrom(md, <<"\n">>, p + 2))
         ELSE [len |-> 0, group |-> <<>>]

H1_RE_from(md, p) == H1_RE_line(md, p, SkipSpace(md, p))

H1_RE(md) == H1_RE_from(md, 1)

\* .replace(/^\n+/, ''): every leading newline goes
RECURSIVE dropNewlines(_)
dropNewlines(rest) ==
    IF rest # <<>> /\ Head(rest) = "\n" THEN dropNewlines(Tail(rest)) ELSE rest

\* .replace(/^\n/, '')
dropNewline(rest) == IF rest # <<>> /\ Head(rest) = "\n" THEN Tail(rest) ELSE rest

\* the result of extractH1 for match = H1_RE.exec(markdown)
H1Of(md, match) ==
    IF match.len = 0 THEN Absent
    ELSE [t |-> "h1",
          title |-> flattenInlineMarkdown(match.group),
          body |-> dropNewline(Slice(md, match.len))]

extractH1(md) == H1Of(md, H1_RE(md))

\* the expression without its trailing \n*: no newline after the element is taken
noNewlines(s, i) == 0

\* H1_HTML_RE = /<h1[^>]*>[\s\S]*?<\/h1>\n*/ : html.replace(H1_HTML_RE, '')
RECURSIVE newlinesFrom(_, _)
newlinesFrom(s, i) ==
    IF i <= Len(s) /\ s[i] = "\n" THEN 1 + newlinesFrom(s, i + 1) ELSE 0

\* where the closing tag after the ">" at gt starts, 0 when ">" or the tag is missing
ClosingAfter(html, gt) ==
    IF gt = 0 THEN 0 ELSE IndexFrom(html, <<"<", "/", "h", "1", ">">>, gt + 1)

\* where the closing tag of the <h1 opened at index i starts
ClosingTag(html, i) == ClosingAfter(html, IndexFrom(html, <<">">>, i + 3))

\* the match that opens at i and whose closing tag ends at e
H1_HTML_at(html, i, e) == [from |-> i, to |-> e + newlinesFrom(html, e + 1)]

\* opens: the indexes where the expression can match
H1_HTML_first(html, opens) ==
    IF opens = {} THEN [from |-> 0, to |-> 0]
    ELSE H1_HTML_at(html, Min(opens), ClosingTag(html, Min(opens)) + 4)

\* the leftmost match as [from, to], from = 0 when there is none
H1_HTML_RE(html) ==
    H1_HTML_first(html, {i \in 1..Len(html) :
                            MatchesAt(html, <<"<", "h", "1">>, i) /\ ClosingTag(html, i) # 0})

\* html with the match m taken out
withoutMatch(html, m) ==
    IF m.from = 0 THEN html
    ELSE SubSeq(html, 1, m.from - 1) \o Slice(html, m.to)

stripH1Html(html) == withoutMatch(html, H1_HTML_RE(html))

-----------------------------------------------------------------------------
(* node:path *)

Slash == <<"/">>

\* the last element of a non-empty set of indexes
Max(S) == CHOOSE x \in S : \A y \in S : x >= y

\* the last index at or after from where key has the character ch, 0 when there is none
LastOf(key, ch, from) ==
    IF \E i \in from..Len(key) : key[i] = ch
    THEN Max({i \in from..Len(key) : key[i] = ch})
    ELSE 0

\* the extension of the segment that starts at start, its last "." being at dot
extnameAt(key, start, dot) ==
    IF dot = 0 \/ dot = start THEN <<>> ELSE SubSeq(key, dot, Len(key))

extnameIn(key, start) == extnameAt(key, start, LastOf(key, ".", start))

\* path.extname: from the last "." of the last path segment, "" when the segment has
\* none or only starts with one
extname(key) == extnameIn(key, LastOf(key, "/", 1) + 1)

\* the template `${prefix}/${key}` guarded by prefix being non-empty; also path.join of a
\* directory relative to basePath and a name
joinPath(prefix, key) == IF prefix # <<>> THEN prefix \o Slash \o key ELSE key

\* path.relative(from, to) for a relative directory from and a relative file to
relative(from, to) ==
    IF from = <<".">> THEN to
    ELSE IF MatchesAt(to, from \o Slash, 1) THEN Slice(to, Len(from) + 1)
    ELSE <<".", ".", "/">> \o to

-----------------------------------------------------------------------------
(* src/frontmatter-map.ts *)

\* A parsed source document is Obj(entries): its keys in document order, each entry
\* <<key, value>>.  The value of a content-file key is a metadata record Rec(r).
Obj(e) == [t |-> "obj", e |-> e]

CONTENT_EXTENSIONS == {<<".", "m", "d">>, <<".", "m", "d", "x">>, <<".", "m", "d", "o", "c">>}
FRONTMATTER_FILENAMES == <<"frontmatter.yml", "frontmatter.yaml", "frontmatter.json">>

\* isContentFile knowing the extension .md only
isContentFileMd(key) == extname(key) = <<".", "m", "d">>

isContentFile(key) == extname(key) \in CONTENT_EXTENSIONS

\* typeof value !== 'object' || value === null || Array.isArray(value)
NotAnObject(value) == value.t \notin {"rec", "obj"}

EmptyMap == [k \in {} |-> EmptyData]

\* the result of reading and parsing a source file: the document, or the error thrown
Thrown(path) == [t |-> "error", path |-> path]
IsThrown(x) == x.t = "error"

\* parseDataFile with a catch that swallows the parse error and gives {}
parseDataFileLenient(file) == IF file.valid THEN file.doc ELSE Obj(<<>>)

\* file: [path, valid, doc] as found on disk
parseDataFile(file) == IF file.valid THEN file.doc ELSE Thrown(file.path)

\* parseCentralFile without the existsSync guard: a missing file is an error
parseCentralFileStrict(file) == IF ~file.exists THEN Thrown(file.path) ELSE parseDataFile(file)

parseCentralFile(file) == IF ~file.exists THEN Obj(<<>>) ELSE parseDataFile(file)

\* for (const [k, v] of nested) map.set(k, v)
setAll(map, nested) ==
    [k \in (DOMAIN map) \cup (DOMAIN nested) |->
        IF k \in DOMAIN nested THEN nested[k] ELSE map[k]]

RECURSIVE flattenToMap(_, _)
\* one turn of the for loop over Object.entries(data): map after the entry [key, value]
flattenEntry(map, prefix, key, value) ==
    IF NotAnObject(value) THEN map
    ELSE IF isContentFile(key) THEN Put(map, joinPath(prefix, key), value.r)
    ELSE setAll(map, flattenToMap(value, joinPath(prefix, key)))

RECURSIVE flattenEntries(_, _, _, _)
\* the for loop from entry i on
flattenEntries(map, data, prefix, i) ==
    IF i > Len(data.e) THEN map
    ELSE flattenEntries(flattenEntry(map, prefix, data.e[i][1], data.e[i][2]),
                        data, prefix, i + 1)

\* a metadata record under a directory key has no key with a content extension and no
\* nested document: it flattens to nothing
flattenToMap(data, prefix) ==
    IF data.t = "rec" THEN EmptyMap ELSE flattenEntries(EmptyMap, data, prefix, 1)

\* the walk descending into every directory, hidden ones and node_modules too
WalkedEverySubdir(fs, dir) == {name \in fs[dir].subdirs : joinPath(dir, name) \in DOMAIN fs}

\* the names readdirSync reports for dir that the walk descends into
WalkedSubdirs(fs, dir) ==
    {name \in fs[dir].subdirs :
        /\ Head(name) # "."
        /\ name # <<"n", "o", "d", "e", "_", "m", "o", "d", "u", "l", "e", "s">>
        /\ joinPath(dir, name) \in DOMAIN fs}

\* the sequence of {dir, filePath, name} the generator yields, a directory before its
\* subdirectories; siblings in the order readdirSync reports them (here: some fixed order)
RECURSIVE walkFrontmatterFiles(_, _)
RECURSIVE walkSubdirs(_, _, _)
\* the for loop over the entries of dir, for the directory names not yet visited
walkSubdirs(fs, dir, names) ==
    IF names = {} THEN <<>>
    ELSE walkFrontmatterFiles(fs, joinPath(dir, CHOOSE n \in names : TRUE))
            \o walkSubdirs(fs, dir, names \ {CHOOSE n \in names : TRUE})

\* the first loop without its break: every one of FRONTMATTER_FILENAMES that exists in dir
RECURSIVE everyFrontmatterFile(_, _, _)
everyFrontmatterFile(fs, dir, i) ==
    IF i > Len(FRONTMATTER_FILENAMES) THEN <<>>
    ELSE (IF FRONTMATTER_FILENAMES[i] \in DOMAIN fs[dir].docs
          THEN <<[dir |-> dir, name |-> FRONTMATTER_FILENAMES[i]]>>
          ELSE <<>>) \o everyFrontmatterFile(fs, dir, i + 1)

\* the first loop: the first of FRONTMATTER_FILENAMES, from the i-th on, that exists in dir
RECURSIVE firstFrontmatterFile(_, _, _)
firstFrontmatterFile(fs, dir, i) ==
    IF i > Len(FRONTMATTER_FILENAMES) THEN <<>>
    ELSE IF FRONTMATTER_FILENAMES[i] \in DOMAIN fs[dir].docs
         THEN <<[dir |-> dir, name |-> FRONTMATTER_FILENAMES[i]]>>
         ELSE firstFrontmatterFile(fs, dir, i + 1)

walkFrontmatterFiles(fs, dir) ==
    IF dir \notin DOMAIN fs THEN <<>>
    ELSE firstFrontmatterFile(fs, dir, 1) \o walkSubdirs(fs, dir, WalkedSubdirs(fs, dir))

\* the file named by a walk item, as parseDataFile takes it
DocFile(fs, item) ==
    [path |-> item, valid |-> fs[item.dir].docs[item.name].valid,
     doc |-> fs[item.dir].docs[item.name].doc]

\* a Map returned normally
Ok(map) == [t |-> "ok", map |-> map]

\* one turn of the for loop over Object.entries(data): map after the entry [key, value]
perDirEntry(map, relDir, key, value) ==
    IF NotAnObject(value) THEN map ELSE Put(map, joinPath(relDir, key), value.r)

RECURSIVE perDirEntries(_, _, _, _)
\* the for loop over Object.entries(data) of one document, from entry i on
perDirEntries(map, entries, relDir, i) ==
    IF i > Len(entries) THEN map
    ELSE perDirEntries(perDirEntry(map, relDir, entries[i][1], entries[i][2]),
                       entries, relDir, i + 1)

RECURSIVE perDirFiles(_, _, _, _)
\* one turn of the for loop over the walk: data is what parseDataFile gave for item n
perDirFile(map, fs, walk, n, data) ==
    IF IsThrown(data) THEN data
    ELSE perDirFiles(perDirEntries(map, data.e, walk[n].dir, 1), fs, walk, n + 1)

\* the for loop over the walk, from its n-th item on
perDirFiles(map, fs, walk, n) ==
    IF n > Len(walk) THEN Ok(map)
    ELSE perDirFile(map, fs, walk, n, parseDataFile(DocFile(fs, walk[n])))

discoverPerDirFiles(fs) == perDirFiles(EmptyMap, fs, walkFrontmatterFiles(fs, <<>>), 1)

\* loadFrontmatterMap setting each per-directory record in place of the central one
mergedMapReplacing(centralMap, perDirMap) ==
    [key \in (DOMAIN centralMap) \cup (DOMAIN perDirMap) |->
        IF key \in DOMAIN perDirMap THEN perDirMap[key] ELSE centralMap[key]]

\* the Map merged of loadFrontmatterMap: centralMap with each per-directory entry set
\* over it, merged into the central value where there is one
mergedMap(centralMap, perDirMap) ==
    [key \in (DOMAIN centralMap) \cup (DOMAIN perDirMap) |->
        IF key \notin DOMAIN perDirMap THEN centralMap[key]
        ELSE IF key \in DOMAIN centralMap
             THEN deepMerge(centralMap[key], perDirMap[key])
             ELSE perDirMap[key]]

\* centralData and the result of the per-directory discovery
mapOf(centralData, perDir) ==
    IF IsThrown(centralData) THEN centralData
    ELSE IF IsThrown(perDir) THEN perDir
    ELSE Ok(mergedMap(flattenToMap(centralData, <<>>), perDir.map))

\* opts.centralFile (given = FALSE when the option is not set) and the tree at basePath
loadFrontmatterMap(centralFile, fs) ==
    mapOf(IF centralFile.given THEN parseCentralFile(centralFile) ELSE Obj(<<>>),
          IF <<>> \in DOMAIN fs THEN discoverPerDirFiles(fs) ELSE Ok(EmptyMap))

collectFrontmatterFilePaths(fs, centralFile) ==
    (IF centralFile.given /\ centralFile.exists THEN <<centralFile.path>> ELSE <<>>)
        \o walkFrontmatterFiles(fs, <<>>)

-----------------------------------------------------------------------------
(* src/index.ts: globFrontmatter(opts).load(context) *)

\* opts.base after normalize(), and the path of the centralized file
normalizedBase == <<"d">>
CentralPath == [dir |-> <<".", ".">>, name |-> "central.yml"]

\* /^---\n[\s\S]*?\n---\n?/.exec(raw): the length of match[0], 0 when there is no
\* match; close is where the closing "\n---" starts
FenceTo(raw, close) ==
    IF MatchesAt(raw, <<"-", "-", "-", "\n">>, 1) /\ close # 0
    THEN IF MatchesAt(raw, <<"\n">>, close + 4) THEN close + 4 ELSE close + 3
    ELSE 0

FenceLength(raw) == FenceTo(raw, IndexFrom(raw, <<"\n", "-", "-", "-">>, 5))

\* fmMap.get(relPath) ?? {}
externalData(map, relPath) == IF relPath \in DOMAIN map THEN map[relPath] ELSE EmptyData

\* merged.title
titleOf(merged) == IF "title" \in DOMAIN merged THEN merged["title"] ELSE Absent

\* if (h1) merged.title = h1.title
withTitle(merged, found) ==
    IF found = Absent THEN merged ELSE Put(merged, "title", Str(found.title))

\* the try block: read is what readFileSync gives (Some(text), or Absent: it throws and
\* the catch skips the H1 extraction)
titleFromBody(merged, read) ==
    IF read = Absent THEN merged
    ELSE withTitle(merged, extractH1(Slice(read.v, FenceLength(read.v))))

\* if (!merged.title) { ... }
injectTitle(merged, read) ==
    IF Truthy(titleOf(merged)) THEN merged ELSE titleFromBody(merged, read)

\* the parseData wrapper with the arguments of its deepMerge swapped: the external
\* metadata laid over the declared data
WrappedDataSwapped(map, props, read) ==
    injectTitle(deepMerge(props.data,
                          externalData(map, relative(normalizedBase, props.filePath.v))),
                read)

\* the parseData wrapper with a catch that falls back to the declared data: a failed read
\* loses the external metadata
WrappedDataDeclaredOnError(map, props, read) ==
    IF read = Absent THEN props.data
    ELSE injectTitle(deepMerge(externalData(map, relative(normalizedBase, props.filePath.v)),
                               props.data),
                     read)

\* The data the parseData wrapper hands to the real parseData for props, with the map
\* of this cycle
WrappedData(map, props, read) ==
    injectTitle(deepMerge(externalData(map, relative(normalizedBase, props.filePath.v)),
                          props.data),
                read)

\* the parseData wrapper without its early return: props with no filePath are merged
\* over an empty external record like any other
wrappedParseDataAlways(map, props, read) ==
    [props EXCEPT !.data =
        injectTitle(deepMerge(IF props.filePath = Absent THEN EmptyData
                              ELSE externalData(map, relative(normalizedBase,
                                                              props.filePath.v)),
                              props.data),
                    read)]

\* async (props) => ... of wrappedContext.parseData: the props the real parseData gets
wrappedParseData(map, props, read) ==
    IF props.filePath = Absent THEN props
    ELSE [props EXCEPT !.data = WrappedData(map, props, read)]

\* if (entry.body) { const h1 = extractH1(entry.body); if (h1) entry.body = h1.body }
strippedBody(body, found) == IF found = Absent THEN body ELSE Some(found.body)

bodyOf(body) ==
    IF body # Absent /\ body.v # <<>> THEN strippedBody(body, extractH1(body.v)) ELSE body

\* if (headings.length > 0 && headings[0].depth === 1) headings = headings.slice(1)
headingsOf(headings) ==
    IF headings # Absent /\ Len(headings.v) > 0 /\ headings.v[1].depth = 1
    THEN Some(Tail(headings.v))
    ELSE headings

\* if (entry.rendered) { ... }
renderedOf(rendered) ==
    IF rendered = Absent THEN Absent
    ELSE [rendered EXCEPT !.html = stripH1Html(rendered.html),
                          !.headings = headingsOf(rendered.headings)]

\* (entry) => ... of wrappedContext.store.set: the entry the real store.set gets
wrappedStoreSet(entry) ==
    [entry EXCEPT !.body = bodyOf(entry.body), !.rendered = renderedOf(entry.rendered)]

\* the props glob() passes to context.parseData for file f
PropsOf(f) == [id |-> f, data |-> files[f].data, filePath |-> files[f].filePath]

\* load() going on to glob() without waiting for the map: the callbacks see an empty map
LoadedWithoutMap(built, filesToWatch) ==
    IF IsThrown(built)
    THEN /\ pc' = "failed"
         /\ failure' = built
         /\ UNCHANGED <<fmMap, watched>>
    ELSE /\ pc' = "globbing"
         /\ UNCHANGED <<failure, fmMap>>
         /\ watched' = IF watcher /\ Len(filesToWatch) > 0
                       THEN Append(watched, filesToWatch)
                       ELSE watched

\* load() after loadFrontmatterMap returned built and the paths to watch were collected
Loaded(built, filesToWatch) ==
    IF IsThrown(built)
    THEN /\ pc' = "failed"
         /\ failure' = built
         /\ UNCHANGED <<fmMap, watched>>
    ELSE /\ pc' = "globbing"
         /\ UNCHANGED failure
         /\ fmMap' = built.map
         /\ watched' = IF watcher /\ Len(filesToWatch) > 0
                       THEN Append(watched, filesToWatch)
                       ELSE watched

\* load() keeping the map of an earlier cycle instead of building it again
LoadCached ==
    /\ pc = "start"
    /\ Loaded(IF fmMap # EmptyMap THEN Ok(fmMap) ELSE loadFrontmatterMap(central, tree),
              collectFrontmatterFilePaths(tree, central))
    /\ UNCHANGED <<central, tree, watcher, files, validated, stored, harnessVars>>

\* load() up to the call of glob(globOpts).load(wrappedContext)
Load ==
    /\ pc = "start"
    /\ Loaded(loadFrontmatterMap(central, tree), collectFrontmatterFilePaths(tree, central))
    /\ UNCHANGED <<central, tree, watcher, files, validated, stored, harnessVars>>

\* glob() calls wrappedContext.parseData for file f; the real parseData is called
ParseData(f) ==
    /\ pc = "globbing"
    /\ \A i \in 1..Len(validated) : validated[i].id # f
    /\ validated' = Append(validated,
                           [id |-> f, given |-> PropsOf(f),
                            props |-> wrappedParseData(fmMap, PropsOf(f), files[f].read)])
    /\ UNCHANGED <<pc, central, tree, watcher, files, fmMap, watched, stored, failure,
                   harnessVars>>

\* glob() calls wrappedContext.store.set with an entry of file f, whose data is what
\* the real parseData returned (the data it was given); the real store.set is called
StoreSet(f, body, rendered) ==
    /\ pc = "globbing"
    /\ \A i \in 1..Len(stored) : stored[i].id # f
    /\ \E i \in 1..Len(validated) :
          /\ validated[i].id = f
          /\ \E entry \in {[id |-> f, data |-> validated[i].props.data,
                             body |-> body, rendered |-> rendered]} :
                stored' = Append(stored,
                                 [id |-> f, given |-> entry, entry |-> wrappedStoreSet(entry)])
    /\ UNCHANGED <<pc, central, tree, watcher, files, fmMap, watched, validated, failure,
                   harnessVars>>

\* glob(globOpts).load(wrappedContext) resolves and load() returns
Finish ==
    /\ pc = "globbing"
    /\ \A f \in DOMAIN files : \E i \in 1..Len(stored) : stored[i].id = f
    /\ pc' = "done"
    /\ UNCHANGED <<loaderVars, harnessVars>>

-----------------------------------------------------------------------------
(* The project a load cycle runs on: one content file d/g/a.md, a centralized *)
(* file and the per-directory document of g                                   *)

DirG == <<"g">>
FileA == <<"a", ".", "m", "d">>
PathA == joinPath(DirG, FileA)
FileIds == {"a"}

\* text of a heading line and its title
LineH == <<"#", " ", "H">>
LineI == <<"#", " ", "*", "I", "*">>
TitleH == Str(<<"H">>)
TitleI == Str(<<"I">>)

\* the file's own frontmatter block
Fence == <<"-", "-", "-", "\n", "t", ":", "\n", "-", "-", "-", "\n">>

Bodies ==
    { LineH \o <<"\n", "\n", "x">>,              \* leading heading
      <<"\n", " ", "\n">> \o LineI \o <<"\n", "x">>, \* after blank lines, inline markup
      <<"x", "\n", "\n">> \o LineH,              \* buried heading
      <<"#">> \o LineH \o <<"\n", "x">> }        \* level-2 heading

\* what readFileSync gives for the file, and the body glob() has for it
Contents ==
    {[read |-> Some(Fence \o b), body |-> b] : b \in Bodies}
    \cup {[read |-> r, body |-> LineH \o <<"\n", "\n", "x">>] :
            r \in {Some(LineH \o <<"\n", "\n", "x">>), Absent}}

TitleC == Str(<<"C">>)
TitleP == Str(<<"P">>)
TitleD == Str(<<"D">>)

CentralRecs ==
    { [title |-> TitleC, sidebar |-> Rec([order |-> Num(1), label |-> Num(1)])],
      [description |-> Num(1), sidebar |-> Rec([order |-> Num(1)])],
      [constructor |-> Num(1), sidebar |-> Num(1)] }

PerDirRecs ==
    { [title |-> TitleP, sidebar |-> Rec([order |-> Num(2)])],
      [sidebar |-> Rec([label |-> Num(2)])],
      [sidebar |-> Arr(<<2>>), description |-> Null],
      ("__proto__" :> Rec([polluted |-> Num(2)])) @@ [draft |-> Num(2)] }

DeclaredRecs ==
    { EmptyData,
      [title |-> TitleD],
      [title |-> Str(<<>>)],
      [draft |-> Num(3), sidebar |-> Rec([order |-> Num(3)])],
      [constructor |-> Num(3), sidebar |-> Rec([label |-> Num(3)])] }

CentralDocs ==
    {Obj(<< <<PathA, Rec(c)>> >>) : c \in CentralRecs}                        \* flat
    \cup {Obj(<< <<DirG, Obj(<< <<FileA, Rec(c)>> >>)>> >>) : c \in CentralRecs} \* hierarchical
    \cup {Obj(<< <<FileA, Rec([title |-> TitleC])>>, <<DirG, Num(1)>> >>)}     \* other paths

CentralFiles ==
    {[given |-> g, exists |-> FALSE, valid |-> TRUE, doc |-> Obj(<<>>), path |-> CentralPath] :
        g \in BOOLEAN}
    \cup {[given |-> TRUE, exists |-> TRUE, valid |-> FALSE, doc |-> Obj(<<>>),
           path |-> CentralPath]}
    \cup {[given |-> TRUE, exists |-> TRUE, valid |-> TRUE, doc |-> d, path |-> CentralPath] :
            d \in CentralDocs}

NoDocs == [n \in {} |-> Null]

DocsOfG ==
    {NoDocs}
    \cup {"frontmatter.yml" :> [valid |-> FALSE, doc |-> Obj(<<>>)]}
    \cup {"frontmatter.yml" :> [valid |-> TRUE, doc |-> Obj(<< <<FileA, Rec(p)>> >>)] :
            p \in PerDirRecs}

\* basePath does not exist: no directory at all
NoTree == [d \in {} |-> Null]

Trees ==
    {(<<>> :> [docs |-> NoDocs, subdirs |-> {DirG}]) @@ (DirG :> [docs |-> d, subdirs |-> {}]) :
        d \in DocsOfG}
    \cup {NoTree}

ContentFiles ==
    {[filePath |-> Some(joinPath(normalizedBase, PathA)), data |-> d,
      read |-> c.read, body |-> c.body] : d \in DeclaredRecs, c \in Contents}
    \cup {[filePath |-> Absent, data |-> d, read |-> Absent,
           body |-> LineH \o <<"\n", "\n", "x">>] : d \in DeclaredRecs}

\* rendered content handed to store.set
Heading(depth) == [depth |-> depth, slug |-> <<"h">>, text |-> <<"H">>]
HtmlH1 == <<"<", "h", "1", " ", "i", "d", ">", "H", "<", "/", "h", "1", ">", "\n">>
HtmlP == <<"<", "p", ">", "x", "<", "/", "p", ">", "\n">>
HtmlH2 == <<"<", "h", "2", ">", "H", "<", "/", "h", "2", ">", "\n">>

Rendered(html, headings) == [t |-> "rendered", html |-> html, headings |-> headings]

Rendereds ==
    { Absent,
      Rendered(HtmlH1 \o HtmlP, Some(<<Heading(1), Heading(2)>>)),
      Rendered(HtmlH1 \o HtmlP, Absent),
      Rendered(HtmlP \o HtmlH1 \o HtmlP, Some(<<Heading(1)>>)),
      Rendered(HtmlH2 \o HtmlP \o HtmlH1, Some(<<Heading(2), Heading(1)>>)),
      Rendered(HtmlP, Some(<<>>)) }

MergeIdle ==
    /\ mTarget = EmptyData
    /\ mSource = EmptyData
    /\ mResult = Absent
    /\ mAgain = Absent
    /\ heap = Absent

H1Idle ==
    /\ markdown = <<>>
    /\ h1 = Absent

HtmlIdle ==
    /\ parts = <<>>
    /\ markup = <<>>
    /\ stripped = Absent

FlattenIdle ==
    /\ document = Absent
    /\ flat = Absent

HarnessIdle == MergeIdle /\ H1Idle /\ HtmlIdle /\ FlattenIdle

Init ==
    /\ pc = "start"
    /\ central \in CentralFiles
    /\ tree \in Trees
    /\ watcher \in BOOLEAN
    /\ files \in [FileIds -> ContentFiles]
    /\ fmMap = EmptyMap
    /\ watched = <<>>
    /\ validated = <<>>
    /\ stored = <<>>
    /\ failure = Absent
    /\ HarnessIdle

Next ==
    \/ Load
    \/ \E f \in FileIds : ParseData(f)
    \/ \E f \in FileIds, rendered \in Rendereds :
          \E body \in {Some(files[f].body), Absent} : StoreSet(f, body, rendered)
    \/ Finish

Spec == Init /\ [][Next]_vars

-----------------------------------------------------------------------------
(* A load cycle over two content files, d/g/a.md and d/a.md, each of which may *)
(* fail to be read                                                             *)

TwoIds == {"a", "b"}

\* the path glob() reports for each of the two files, relative to the root and to base
FilePathOf(f) == joinPath(normalizedBase, IF f = "a" THEN PathA ELSE FileA)
RelPathOf(f) == IF f = "a" THEN PathA ELSE FileA

TwoFiles ==
    {fs \in [TwoIds -> [filePath : {Some(FilePathOf(f)) : f \in TwoIds},
                        data : {EmptyData, [title |-> TitleD]},
                        read : {Some(LineH \o <<"\n", "\n", "x">>), Absent},
                        body : {LineH \o <<"\n", "\n", "x">>}]] :
        \A f \in TwoIds : fs[f].filePath = Some(FilePathOf(f))}

TwoCentralFiles ==
    {c \in CentralFiles :
        \/ ~c.given
        \/ c.doc = Obj(<< <<FileA, Rec([title |-> TitleC])>>, <<DirG, Num(1)>> >>)
        \/ c.doc = Obj(<< <<PathA, Rec([description |-> Num(1),
                                        sidebar |-> Rec([order |-> Num(1)])])>> >>)}

TwoTrees ==
    {t \in Trees : DirG \in DOMAIN t /\ \A n \in DOMAIN t[DirG].docs : t[DirG].docs[n].valid}

InitTwo ==
    /\ pc = "start"
    /\ central \in TwoCentralFiles
    /\ tree \in TwoTrees
    /\ watcher = FALSE
    /\ files \in TwoFiles
    /\ fmMap = EmptyMap
    /\ watched = <<>>
    /\ validated = <<>>
    /\ stored = <<>>
    /\ failure = Absent
    /\ HarnessIdle

NextTwo ==
    \/ Load
    \/ \E f \in TwoIds : ParseData(f)
    \/ \E f \in TwoIds, rendered \in {Absent, Rendered(HtmlH1 \o HtmlP, Absent)} :
          StoreSet(f, Some(files[f].body), rendered)
    \/ Finish

SpecTwo == InitTwo /\ [][NextTwo]_vars

-----------------------------------------------------------------------------
(* A load cycle on a project with directories d, d/g, d/g/s, d/.h and            *)
(* d/node_modules, each with none, one or several frontmatter documents          *)

DirS == <<"s">>
DirHidden == <<".", "h">>
DirModules == <<"n", "o", "d", "e", "_", "m", "o", "d", "u", "l", "e", "s">>

\* a document that parses to entries, and one that does not parse
DocOf(entries) == [valid |-> TRUE, doc |-> Obj(entries)]
DocBroken == [valid |-> FALSE, doc |-> Obj(<<>>)]

RecY == [title |-> TitleP]
RecJ == [title |-> TitleC, draft |-> Num(1)]

\* the documents a directory may hold
FileB == <<"b", ".", "m", "d">>

DocsOfDir ==
    { NoDocs,
      "frontmatter.yml" :> DocOf(<< <<FileA, Rec(RecY)>>, <<DirG, Rec(RecJ)>>, <<FileB, Num(1)>> >>),
      "frontmatter.json" :> DocOf(<< <<FileA, Rec(RecJ)>> >>),
      ("frontmatter.yaml" :> DocOf(<< <<FileA, Rec(RecY)>> >>))
          @@ ("frontmatter.json" :> DocOf(<< <<FileB, Rec(RecJ)>> >>)),
      ("frontmatter.yml" :> DocOf(<< <<FileB, Rec(RecY)>> >>))
          @@ ("frontmatter.json" :> DocBroken),
      "frontmatter.yaml" :> DocBroken }

DocsOfRoot ==
    { NoDocs,
      "frontmatter.yml" :> DocOf(<< <<PathA, Rec(RecJ)>>, <<FileA, Rec(RecY)>> >>) }

DocsOfSkipped ==
    { "frontmatter.yml" :> DocOf(<< <<FileA, Rec(RecY)>> >>), "frontmatter.yml" :> DocBroken }

\* no centralized file, one that is configured but missing, one that gives g/a.md
DeepCentrals ==
    {[given |-> g, exists |-> FALSE, valid |-> TRUE, doc |-> Obj(<<>>), path |-> CentralPath] :
        g \in BOOLEAN}
    \cup {[given |-> TRUE, exists |-> TRUE, valid |-> TRUE, path |-> CentralPath,
           doc |-> Obj(<< <<PathA, Rec([title |-> TitleC, draft |-> Num(2)])>> >>)]}

DeepTrees ==
    {(<<>> :> [docs |-> r, subdirs |-> {DirG, DirHidden, DirModules}])
        @@ (DirG :> [docs |-> g, subdirs |-> {DirS}])
        @@ (joinPath(DirG, DirS) :> [docs |-> gs, subdirs |-> {}])
        @@ (DirHidden :> [docs |-> h, subdirs |-> {}])
        @@ (DirModules :> [docs |-> h, subdirs |-> {}]) :
        r \in DocsOfRoot, g \in DocsOfDir, gs \in DocsOfDir, h \in DocsOfSkipped}

InitDeep ==
    /\ pc = "start"
    /\ central \in DeepCentrals
    /\ tree \in DeepTrees
    /\ watcher = TRUE
    /\ files \in [FileIds -> {[filePath |-> Some(joinPath(normalizedBase, PathA)),
                                data |-> EmptyData, read |-> Absent,
                                body |-> LineH \o <<"\n", "\n", "x">>]}]
    /\ fmMap = EmptyMap
    /\ watched = <<>>
    /\ validated = <<>>
    /\ stored = <<>>
    /\ failure = Absent
    /\ HarnessIdle

SpecDeep == InitDeep /\ [][Next]_vars

-----------------------------------------------------------------------------
(* Load cycles one after another: between two cycles the centralized file and   *)
(* the documents of g are edited, created or deleted, and load() is called      *)
(* again on the same loader object                                              *)

\* the number of watcher.add calls after which no further cycle is started
MaxCycles == 2

CycleTrees ==
    {t \in DeepTrees : t[<<>>].docs = NoDocs /\ t[joinPath(DirG, DirS)].docs = NoDocs
                         /\ t[DirHidden].docs # ("frontmatter.yml" :> DocBroken)}

InitCycles ==
    /\ InitDeep
    /\ tree \in CycleTrees

\* the sources change after a cycle ended and Astro calls load() again; validated,
\* stored and failure are those of the cycle that starts
SourceChanged ==
    /\ pc \in {"done", "failed"}
    /\ Len(watched) < MaxCycles
    /\ central' \in DeepCentrals
    /\ tree' \in CycleTrees
    /\ pc' = "start"
    /\ validated' = <<>>
    /\ stored' = <<>>
    /\ failure' = Absent
    /\ UNCHANGED <<watcher, files, fmMap, watched, harnessVars>>

NextCycles ==
    \/ Load
    \/ \E f \in FileIds : ParseData(f)
    \/ \E f \in FileIds : StoreSet(f, Some(files[f].body), Absent)
    \/ Finish
    \/ SourceChanged

SpecCycles == InitCycles /\ [][NextCycles]_vars

-----------------------------------------------------------------------------
(* The load cycle with what the real parseData and the real store.set return:   *)
(* parseData resolves to the validated data or rejects, store.set tells whether *)
(* the entry was changed                                                         *)

Resolved(v) == [t |-> "resolved", v |-> v]
Rejected == [t |-> "rejected"]

ParseResults == {Resolved(Num(1)), Resolved(Num(2)), Rejected}
SetResults == {Resolved(Num(0)), Resolved(Num(1))}

\* the wrapper returning nothing of what the real function returned
wrappedReturnNothing(result) == Absent

\* return originalParseData(...) and return originalSet(entry): the wrapper's result is
\* the real function's
wrappedReturn(result) == result

\* wrappedContext.parseData(PropsOf(f)), the real parseData returning result
ParseDataReturning(f, result) ==
    /\ pc = "globbing"
    /\ \A i \in 1..Len(validated) : validated[i].id # f
    /\ validated' = Append(validated,
                           [id |-> f, given |-> PropsOf(f),
                            props |-> wrappedParseData(fmMap, PropsOf(f), files[f].read),
                            result |-> result, returned |-> wrappedReturn(result)])
    /\ UNCHANGED <<pc, central, tree, watcher, files, fmMap, watched, stored, failure,
                   harnessVars>>

\* wrappedContext.store.set(entry) for file f, the real store.set returning result;
\* glob() stores no file whose data the real parseData rejected
StoreSetReturning(f, body, rendered, result) ==
    /\ pc = "globbing"
    /\ \A i \in 1..Len(stored) : stored[i].id # f
    /\ \E i \in 1..Len(validated) :
          /\ validated[i].id = f
          /\ validated[i].result # Rejected
          /\ \E entry \in {[id |-> f, data |-> validated[i].props.data,
                             body |-> body, rendered |-> rendered]} :
                stored' = Append(stored,
                                 [id |-> f, given |-> entry, entry |-> wrappedStoreSet(entry),
                                  result |-> result, returned |-> wrappedReturn(result)])
    /\ UNCHANGED <<pc, central, tree, watcher, files, fmMap, watched, validated, failure,
                   harnessVars>>

\* the projects of Spec without a centralized file and without a watcher
InitDelegate ==
    /\ Init
    /\ ~central.given
    /\ watcher = FALSE

\* glob(globOpts).load(wrappedContext) ends: every file is stored or was rejected
FinishDelegate ==
    /\ pc = "globbing"
    /\ \A f \in DOMAIN files :
          \/ \E i \in 1..Len(stored) : stored[i].id = f
          \/ \E i \in 1..Len(validated) : validated[i].id = f /\ validated[i].result = Rejected
    /\ pc' = IF \E i \in 1..Len(validated) : validated[i].result = Rejected
             THEN "failed" ELSE "done"
    /\ UNCHANGED <<loaderVars, harnessVars>>

NextDelegate ==
    \/ Load
    \/ \E f \in FileIds, result \in ParseResults : ParseDataReturning(f, result)
    \/ \E f \in FileIds, result \in SetResults :
          \E rendered \in {Absent, Rendered(HtmlH1 \o HtmlP, Absent)} :
             StoreSetReturning(f, Some(files[f].body), rendered, result)
    \/ FinishDelegate

SpecDelegate == InitDelegate /\ [][NextDelegate]_vars

-----------------------------------------------------------------------------
(* A load cycle on a content file whose text is a few lines, some of them "---" *)
(* or beginning with "---", with no metadata source; the body glob() stores is  *)
(* the text after the file's metadata fence                                      *)

MaxLines == 4

Dashes == <<"-", "-", "-">>

\* the lines a content file is written from
FileLines ==
    {Dashes, Dashes \o <<"-">>, Dashes \o <<" ">>, <<"t">>, <<"#", " ", "A">>, <<"#", " ", "B">>}

\* lines.join("\n")
RECURSIVE JoinLines(_)
JoinLines(ls) ==
    IF ls = <<>> THEN <<>>
    ELSE IF Len(ls) = 1 THEN ls[1]
         ELSE ls[1] \o <<"\n">> \o JoinLines(Tail(ls))

FileTexts == {JoinLines(ls) : ls \in UNION {[1..n -> FileLines] : n \in 1..MaxLines}}

\* text.split("\n")
RECURSIVE SplitLines(_)
SplitLines(text) ==
    IF \A i \in DOMAIN text : text[i] # "\n" THEN <<text>>
    ELSE <<SubSeq(text, 1, IndexFrom(text, <<"\n">>, 1) - 1)>>
            \o SplitLines(Slice(text, IndexFrom(text, <<"\n">>, 1)))

\* the lines of exactly "---" that can close a fence opened by the first line of ls:
\* there is content between the two
ClosingLines(ls) ==
    IF Len(ls) >= 3 /\ ls[1] = Dashes THEN {j \in 3..Len(ls) : ls[j] = Dashes} ELSE {}

\* everything after the leading metadata fence of the lines ls, all of it when there is
\* no fence
AfterFence(ls) ==
    IF ClosingLines(ls) = {} THEN JoinLines(ls)
    ELSE JoinLines(SubSeq(ls, Min(ClosingLines(ls)) + 1, Len(ls)))

InitFence ==
    /\ pc = "start"
    /\ central \in {c \in DeepCentrals : ~c.given}
    /\ tree = NoTree
    /\ watcher = TRUE
    /\ files \in [FileIds -> {[filePath |-> Some(joinPath(normalizedBase, PathA)),
                                data |-> EmptyData, read |-> Some(raw),
                                body |-> AfterFence(SplitLines(raw))] :
                               raw \in FileTexts}]
    /\ fmMap = EmptyMap
    /\ watched = <<>>
    /\ validated = <<>>
    /\ stored = <<>>
    /\ failure = Absent
    /\ HarnessIdle

NextFence ==
    \/ Load
    \/ \E f \in FileIds : ParseData(f)
    \/ \E f \in FileIds : StoreSet(f, Some(files[f].body), Absent)
    \/ Finish

SpecFence == InitFence /\ [][NextFence]_vars

-----------------------------------------------------------------------------
(* The same cycle with the map and the records of the callbacks as objects in   *)
(* memory: heap.cells are the objects, heap.at[path] is where the map's record of *)
(* path is                                                                        *)

\* new Map(...) of loadFrontmatterMap: every record of map allocated
RECURSIVE allocMapFrom(_, _, _, _)
allocMapPath(map, paths, at, p, allocated) ==
    allocMapFrom(allocated.cells, map, paths \ {p}, Put(at, p, allocated.at))

allocMapFrom(cells, map, paths, at) ==
    IF paths = {} THEN [cells |-> cells, at |-> at]
    ELSE allocMapPath(map, paths, at, CHOOSE p \in paths : TRUE,
                      allocRecord(cells, map[CHOOSE p \in paths : TRUE]))

MapHeap(map) == allocMapFrom(<<>>, map, DOMAIN map, EmptyMap)

\* fmMap.get(relPath) ?? {}: the record of the map itself, or a new empty object
externalAt(h, relPath) ==
    IF relPath \in DOMAIN h.at THEN [cells |-> h.cells, at |-> h.at[relPath]]
    ELSE allocRecord(h.cells, EmptyData)

\* deepMerge(externalData, props.data), props.data being the object declared
mergedWith(ext, declared) == deepMergeH(declared.cells, ext, declared.at)

mergedAt(external, data) == mergedWith(external.at, allocRecord(external.cells, data))

\* if (h1) merged.title = h1.title, on the object merged
titledWith(merged, found) ==
    IF found = Absent THEN merged
    ELSE [merged EXCEPT !.cells = setField(merged.cells, merged.at, "title", Str(found.title))]

\* if (!merged.title) { try { ... } catch { } }
titledAt(merged, read) ==
    IF Truthy(titleOf(merged.cells[merged.at])) \/ read = Absent THEN merged
    ELSE titledWith(merged, extractH1(Slice(read.v, FenceLength(read.v))))

\* the parseData wrapper on objects: the memory after it and where merged is
wrappedParseDataH(h, props, read) ==
    titledAt(mergedAt(externalAt(h, relative(normalizedBase, props.filePath.v)), props.data),
             read)

\* load() up to the call of glob(), the map being allocated
LoadH ==
    /\ pc = "start"
    /\ Loaded(loadFrontmatterMap(central, tree), collectFrontmatterFilePaths(tree, central))
    /\ heap' = MapHeap(fmMap')
    /\ UNCHANGED <<central, tree, watcher, files, validated, stored,
                   mTarget, mSource, mResult, mAgain, h1Vars, htmlVars, flattenVars>>

\* glob() calls wrappedContext.parseData for file f; the real parseData is called with
\* the record the object merged holds
ParseDataH(f) ==
    /\ pc = "globbing"
    /\ \A i \in 1..Len(validated) : validated[i].id # f
    /\ \E m \in {wrappedParseDataH(heap, PropsOf(f), files[f].read)} :
          /\ validated' = Append(validated,
                                 [id |-> f, given |-> PropsOf(f),
                                  props |-> [PropsOf(f) EXCEPT !.data = ValueAt(m.cells, m.at)]])
          /\ heap' = [heap EXCEPT !.cells = m.cells]
    /\ UNCHANGED <<pc, central, tree, watcher, files, fmMap, watched, stored, failure,
                   mTarget, mSource, mResult, mAgain, h1Vars, htmlVars, flattenVars>>

NextShared ==
    \/ LoadH
    \/ \E f \in TwoIds : ParseDataH(f)
    \/ \E f \in TwoIds : StoreSet(f, Some(files[f].body), Absent)
    \/ Finish

SpecShared == InitTwo /\ [][NextShared]_vars

-----------------------------------------------------------------------------
(* deepMerge on its own: every pair of records of a bounded shape *)

Nums == 1..MaxNum

InnerRecs ==
    UNION {[S -> {Num(n) : n \in Nums}] : S \in SUBSET {"x", "__proto__"}}

ValuesOfK ==
    {Num(n) : n \in Nums} \cup {Null} \cup {Arr(<<n>>) : n \in Nums}
    \cup {Rec(r) : r \in InnerRecs}

MergeRecs ==
    UNION {{f \in [S -> ValuesOfK \cup {Rec(EmptyData)}] :
               /\ "j" \in S => f["j"] = Num(1)
               /\ "constructor" \in S => f["constructor"] \in {Num(1), Rec(EmptyData)}} :
           S \in SUBSET {"k", "j", "constructor"}}

LoaderIdle ==
    /\ central = Absent
    /\ tree = Absent
    /\ watcher = FALSE
    /\ files = Absent
    /\ fmMap = EmptyMap
    /\ watched = <<>>
    /\ validated = <<>>
    /\ stored = <<>>
    /\ failure = Absent

InitMerge ==
    /\ pc = "call"
    /\ mTarget \in MergeRecs
    /\ mSource \in MergeRecs
    /\ mResult = Absent
    /\ mAgain = Absent
    /\ heap = InputHeap(mTarget, mSource)
    /\ H1Idle
    /\ HtmlIdle
    /\ FlattenIdle
    /\ LoaderIdle

\* deepMerge(target, source) is called and returns
CallDeepMerge ==
    /\ pc = "call"
    /\ mResult' = Some(deepMerge(mTarget, mSource))
    /\ heap' = Returned(heap, deepMergeH(heap.cells, heap.target, heap.source))
    /\ pc' = "returned"
    /\ UNCHANGED <<loaderVars, mTarget, mSource, mAgain, h1Vars, htmlVars, flattenVars>>

\* deepMerge(result, source) is called on the record just returned
CallDeepMergeAgain ==
    /\ pc = "returned"
    /\ mAgain' = Some(deepMerge(mResult.v, mSource))
    /\ pc' = "merged again"
    /\ UNCHANGED <<loaderVars, mTarget, mSource, mResult, heap, h1Vars, htmlVars, flattenVars>>

NextMerge == CallDeepMerge \/ CallDeepMergeAgain

SpecMerge == InitMerge /\ [][NextMerge]_vars

-----------------------------------------------------------------------------
(* extractH1 on its own: every markdown text up to MaxLen characters *)

MarkdownChars == {"#", " ", "\n", "a"}

Markdowns == UNION {[1..n -> MarkdownChars] : n \in 0..MaxLen}

InitH1 ==
    /\ pc = "call"
    /\ markdown \in Markdowns
    /\ h1 = Absent
    /\ MergeIdle
    /\ HtmlIdle
    /\ FlattenIdle
    /\ LoaderIdle

CallExtractH1 ==
    /\ pc = "call"
    /\ h1' = Some(extractH1(markdown))
    /\ pc' = "returned"
    /\ UNCHANGED <<loaderVars, mergeVars, markdown, htmlVars, flattenVars>>

NextH1 == CallExtractH1

SpecH1 == InitH1 /\ [][NextH1]_vars

-----------------------------------------------------------------------------
(* stripH1Html on its own: markup made of up to MaxParts elements and newlines *)

MaxParts == 4

H1Attr == <<"<", "h", "1", " ", "i", ">", "H", "<", "/", "h", "1", ">">>
H1Nested == <<"<", "h", "1", ">", "<", "b", ">", "H", "<", "/", "b", ">", "\n", "<", "/", "h", "1", ">">>
ElemP == <<"<", "p", ">", "x", "<", "/", "p", ">">>
ElemH2 == <<"<", "h", "2", ">", "H", "<", "/", "h", "2", ">">>
Newline == <<"\n">>

H1Elements == {H1Attr, H1Nested}
Parts == H1Elements \cup {ElemP, ElemH2, Newline}

\* the markup text of a sequence of parts
RECURSIVE TextOf(_)
TextOf(ps) == IF ps = <<>> THEN <<>> ELSE Head(ps) \o TextOf(Tail(ps))

InitHtml ==
    /\ pc = "call"
    /\ parts \in UNION {[1..n -> Parts] : n \in 0..MaxParts}
    /\ markup = TextOf(parts)
    /\ stripped = Absent
    /\ MergeIdle
    /\ H1Idle
    /\ FlattenIdle
    /\ LoaderIdle

CallStripH1Html ==
    /\ pc = "call"
    /\ stripped' = Some(stripH1Html(markup))
    /\ pc' = "returned"
    /\ UNCHANGED <<loaderVars, mergeVars, h1Vars, parts, markup, flattenVars>>

NextHtml == CallStripH1Html

SpecHtml == InitHtml /\ [][NextHtml]_vars

-----------------------------------------------------------------------------
(* flattenToMap on its own: documents of one or two entries whose values nest up to *)
(* MaxDepth documents deep                                                          *)

MaxDepth == 2

FileX == <<"b", ".", "m", "d", "x">>
FileDoc == <<"c", ".", "m", "d", "o", "c">>
KeyYml == <<"c", ".", "y">>

\* keys that name a content file, in a directory or with the directory in the key, and
\* keys that do not
FileKeys == {FileA, FileX, FileDoc, PathA}
OtherKeys == {DirG, KeyYml}

\* values that are not documents: two metadata records and a scalar
Leaves == {Rec([title |-> TitleC]), Rec([title |-> TitleP]), Num(1)}

\* the [key, value] entries whose value nests at most d documents
RECURSIVE Entries(_)
Entries(d) ==
    {<<k, v>> : k \in FileKeys, v \in Leaves}
    \cup {<<k, v>> : k \in OtherKeys, v \in Leaves}
    \cup (IF d = 0 THEN {}
          ELSE {<<k, Obj(<<e>>)>> : k \in OtherKeys, e \in Entries(d - 1)})

Documents ==
    {Obj(<<>>)}
    \cup {Obj(<<e>>) : e \in Entries(MaxDepth)}
    \cup {Obj(<<p[1], p[2]>>) :
            p \in {q \in Entries(MaxDepth) \X Entries(MaxDepth) : q[1][1] # q[2][1]}}

InitFlatten ==
    /\ pc = "call"
    /\ document \in Documents
    /\ flat = Absent
    /\ MergeIdle
    /\ H1Idle
    /\ HtmlIdle
    /\ LoaderIdle

CallFlattenToMap ==
    /\ pc = "call"
    /\ flat' = Some(flattenToMap(document, <<>>))
    /\ pc' = "returned"
    /\ UNCHANGED <<loaderVars, mergeVars, h1Vars, htmlVars, document>>

NextFlatten == CallFlattenToMap

SpecFlatten == InitFlatten /\ [][NextFlatten]_vars

-----------------------------------------------------------------------------
(* extractH1 on headings with inline markup: a heading line made of up to MaxInline *)
(* pieces, each with the plain text it stands for                                   *)

MaxInline == 3

Piece(raw, plain) == [raw |-> raw, plain |-> plain]

Pieces ==
    { Piece(<<"C", "#">>, <<"C", "#">>),
      Piece(<<" ">>, <<" ">>),
      Piece(<<"!", "[", "A", "]", "(", "u", ")">>, <<"A">>),
      Piece(<<"[", "L", "]", "(", "u", ")">>, <<"L">>),
      Piece(<<"*", "*", "B", "*", "*">>, <<"B">>),
      Piece(<<"_", "_", "B", "_", "_">>, <<"B">>),
      Piece(<<"*", "I", "*">>, <<"I">>),
      Piece(<<"_", "I", "_">>, <<"I">>),
      Piece(<<"~", "~", "S", "~", "~">>, <<"S">>),
      Piece(<<Backtick, "c", Backtick>>, <<"c">>) }

\* the text of the pieces as written
RECURSIVE RawOf(_)
RawOf(ps) == IF ps = <<>> THEN <<>> ELSE Head(ps).raw \o RawOf(Tail(ps))

InitInline ==
    /\ pc = "call"
    /\ parts \in UNION {[1..n -> Pieces] : n \in 1..MaxInline}
    /\ \E rest \in {<<>>, <<"\n", "x">>} : markdown = <<"#", " ">> \o RawOf(parts) \o rest
    /\ h1 = Absent
    /\ markup = <<>>
    /\ stripped = Absent
    /\ MergeIdle
    /\ FlattenIdle
    /\ LoaderIdle

SpecInline == InitInline /\ [][NextH1]_vars

-----------------------------------------------------------------------------
(* Properties *)

\* overlay laid over base key by key, stated without the loop of deepMerge: a key of
\* the overlay that is not blocked takes the overlay's value, two records combine,
\* every other key keeps the value of base
RECURSIVE Combined(_, _)
Combined(base, overlay) ==
    [k \in (DOMAIN base) \cup ((DOMAIN overlay) \ BlockedKeys) |->
        IF k \notin DOMAIN overlay \/ k \in BlockedKeys THEN base[k]
        ELSE IF k \in DOMAIN base /\ base[k].t = "rec" /\ overlay[k].t = "rec"
             THEN Rec(Combined(base[k].r, overlay[k].r))
             ELSE overlay[k]]

\* the centralized mapping and the per-directory mapping of the project at hand
centralMapNow ==
    flattenToMap(IF central.given THEN parseCentralFile(central) ELSE Obj(<<>>), <<>>)
perDirMapNow == discoverPerDirFiles(tree).map

\* the external layer of path: the one mapping's record where only one has the path, the
\* per-directory record laid over the central one where both have it
Layered(c, p, path) ==
    IF path \notin DOMAIN p THEN (IF path \in DOMAIN c THEN c[path] ELSE EmptyData)
    ELSE IF path \in DOMAIN c THEN Combined(c[path], p[path])
    ELSE p[path]

\* data is m, or m with a title text set
IsWithTitle(data, m) ==
    \/ data = m
    \/ /\ "title" \in DOMAIN data
       /\ data["title"].t = "str"
       /\ data = Put(m, "title", data["title"])

loaded == pc \in {"globbing", "done"}

\* C1: for every content file reported with a filePath, the data forwarded to validation
\* is the file's declared data laid over the per-directory record laid over the
\* centralized record (plus at most an injected title): declared wins over
\* per-directory wins over centralized, nested records combined key by key.
C1_ForwardedIsLayeredMerge ==
    \A i \in DOMAIN validated :
        validated[i].given.filePath # Absent =>
            IsWithTitle(validated[i].props.data,
                        Combined(Layered(centralMapNow, perDirMapNow, PathA),
                                 validated[i].given.data))

\* a file whose sidebar record is defined in all three layers and whose title in two
C1_Witness ==
    \E i \in DOMAIN validated :
        /\ validated[i].given.filePath # Absent
        /\ validated[i].given.data = [draft |-> Num(3), sidebar |-> Rec([order |-> Num(3)])]
        /\ validated[i].props.data =
              [title |-> TitleP, draft |-> Num(3),
               sidebar |-> Rec([order |-> Num(3), label |-> Num(1)])]

\* C4 (as claimed): the record deepMerge returns never has __proto__ or constructor as
\* a key, whatever the two records.
C4_NoBlockedKeyInResult ==
    pc = "returned" /\ mResult # Absent => (DOMAIN mResult.v) \cap BlockedKeys = {}

\* C5 (as claimed): a blocked key of any merge source of a file (centralized record,
\* per-directory record, declared data) never appears in the record forwarded to
\* validation.
C5_NoBlockedKeyForwarded ==
    \A i \in DOMAIN validated :
        validated[i].given.filePath # Absent =>
            (DOMAIN validated[i].props.data) \cap BlockedKeys = {}

\* the value deepMerge is to give key k of the result
MergedValue(A, B, k) ==
    IF k \notin DOMAIN B THEN A[k]
    ELSE IF k \in DOMAIN A /\ IsPlainObject(A[k]) /\ IsPlainObject(B[k])
         THEN Rec(Combined(A[k].r, B[k].r))
         ELSE B[k]

\* C6: deepMerge(A, B) gives every non-blocked key k: A[k] when k is only in A, the
\* merge of A[k] and B[k] when both are plain records, B[k] in every other case (arrays
\* replaced, null overwrites, a type mismatch takes B's value); every key of either
\* input is in the result except blocked keys of B, and no other key is.
C6_MergeKeyByKey ==
    pc = "returned" /\ mResult # Absent =>
        /\ ((DOMAIN mTarget) \cup (DOMAIN mSource)) \ ((DOMAIN mSource) \cap BlockedKeys)
              \subseteq DOMAIN mResult.v
        /\ DOMAIN mResult.v \subseteq (DOMAIN mTarget) \cup (DOMAIN mSource)
        /\ \A k \in (DOMAIN mResult.v) \ BlockedKeys :
              mResult.v[k] = MergedValue(mTarget, mSource, k)

\* two records merged under k beside a key only the base has
C6_Witness ==
    /\ pc = "returned"
    /\ mTarget = [k |-> Rec([x |-> Num(1)]), j |-> Num(1)]
    /\ mSource = [k |-> Rec(("__proto__" :> Num(2)) @@ [x |-> Num(2)])]
    /\ mResult = Some([k |-> Rec([x |-> Num(2)]), j |-> Num(1)])

\* C10: loadFrontmatterMap gives every path the centralized record alone when only the
\* centralized source has it, the per-directory record alone when only a per-directory
\* document has it, and the per-directory record merged key by key over the
\* centralized one when both have it; no other path is in the map.
C10_MapMergesPerPath ==
    loaded =>
        /\ DOMAIN fmMap = (DOMAIN centralMapNow) \cup (DOMAIN perDirMapNow)
        /\ \A path \in DOMAIN fmMap : fmMap[path] = Layered(centralMapNow, perDirMapNow, path)

\* a path both sources have, with a nested record combined
C10_Witness ==
    /\ loaded
    /\ PathA \in DOMAIN fmMap
    /\ fmMap[PathA] = [title |-> TitleC, sidebar |-> Rec([order |-> Num(1), label |-> Num(2)])]

\* the index of the line end at or after s: that of its newline, or one past the text
RECURSIVE LineEnd(_, _)
LineEnd(md, s) ==
    IF s > Len(md) \/ md[s] = "\n" THEN s ELSE LineEnd(md, s + 1)

\* where the first non-blank line of md starts: a line start with only blank lines
\* before it, the line itself holding a character that is not white space
FirstNonBlank(md) ==
    {s \in 1..Len(md) :
        /\ s = 1 \/ md[s - 1] = "\n"
        /\ \A j \in 1..(s - 1) : md[j] \in Whitespace
        /\ \E j \in s..(LineEnd(md, s) - 1) : md[j] \notin Whitespace}

\* the line at s begins with "# " followed by at least one character of text
IsHeadingLine(md, s) ==
    /\ s + 2 <= Len(md)
    /\ md[s] = "#"
    /\ md[s + 1] = " "
    /\ md[s + 2] # "\n"

\* C8: extractH1 returns a result if and only if the first non-blank line of the body
\* begins with "# " followed by text, leading blank or whitespace-only lines being
\* permitted; a deeper heading, prose, or a level-1 heading after other content gives
\* no result.
C8_ResultIffLeadingHeading ==
    pc = "returned" /\ h1 # Absent =>
        (h1.v # Absent <=> \E s \in FirstNonBlank(markdown) : IsHeadingLine(markdown, s))

\* a heading found after a whitespace-only line
C8_Witness ==
    /\ pc = "returned"
    /\ markdown = <<" ", "\n", "#", " ", "a">>
    /\ h1 = Some([t |-> "h1", title |-> <<"a">>, body |-> <<>>])

\* what follows the line that starts at s, its newline included in what is left out
AfterLine(md, s) == Slice(md, Min({LineEnd(md, s), Len(md)}))

\* body is rest, or rest without the one newline it starts with
IsRestOf(body, rest) ==
    /\ body = rest \/ (rest # <<>> /\ Head(rest) = "\n" /\ body = Tail(rest))
    /\ rest # <<>> /\ Head(rest) # "\n" => body = rest
    /\ rest # <<>> /\ Head(rest) = "\n" => body = Tail(rest)

\* C9: when extractH1 matches, the body it returns is the markdown without the leading
\* blank lines and the heading line, and without at most one blank line right after
\* it; the rest is kept verbatim (a suffix of the input): a non-blank line after the
\* heading stays, a heading alone gives the empty body, later "# " lines stay.
C9_BodyIsRestAfterHeading ==
    pc = "returned" /\ h1 # Absent /\ h1.v # Absent =>
        \A s \in FirstNonBlank(markdown) : IsRestOf(h1.v.body, AfterLine(markdown, s))

\* a heading followed by two empty lines: one of them stays
C9_Witness ==
    /\ pc = "returned"
    /\ markdown = <<"#", " ", "a", "\n", "\n", "\n">>
    /\ h1 = Some([t |-> "h1", title |-> <<"a">>, body |-> <<"\n">>])

\* body has a leading level-1 heading: its first non-blank line is a heading line
HasLeadingHeading(body) ==
    body # Absent /\ \E s \in FirstNonBlank(body.v) : IsHeadingLine(body.v, s)

\* C2 (as claimed): in the store.set interception rendered.html goes through stripH1Html
\* only if extractH1 matched on the body of the same entry; with no leading level-1
\* heading in the body, or no body, rendered.html reaches the store unchanged.
C2_HtmlStrippedOnlyWithHeading ==
    \A i \in DOMAIN stored :
        stored[i].given.rendered # Absent /\ ~HasLeadingHeading(stored[i].given.body) =>
            stored[i].entry.rendered.html = stored[i].given.rendered.html

\* the merged record of the file before any title is injected
MergedRecord(declared) == Combined(Layered(centralMapNow, perDirMapNow, PathA), declared)

\* C3 (as claimed): a title is injected only when the merged record has no title key;
\* a title that is present, the empty string included, is not overwritten by the heading.
C3_PresentTitleKept ==
    \A i \in DOMAIN validated :
        /\ validated[i].given.filePath # Absent
        /\ "title" \in DOMAIN MergedRecord(validated[i].given.data)
        => validated[i].props.data = MergedRecord(validated[i].given.data)

\* C7 (as claimed): for a file whose declared data holds a title, the title forwarded to
\* validation is the declared one whatever the external metadata and the heading of
\* the body, and store.set still strips the leading heading from the stored body.
C7_DeclaredTitleWinsBodyStripped ==
    /\ \A i \in DOMAIN validated :
          "title" \in DOMAIN validated[i].given.data =>
              /\ "title" \in DOMAIN validated[i].props.data
              /\ validated[i].props.data["title"] = validated[i].given.data["title"]
    /\ \A i \in DOMAIN stored :
          /\ "title" \in DOMAIN files[stored[i].id].data
          /\ HasLeadingHeading(stored[i].given.body)
          => \A s \in FirstNonBlank(stored[i].given.body.v) :
                IsRestOf(stored[i].entry.body.v, AfterLine(stored[i].given.body.v, s))

\* the source files that are present and do not parse
MalformedSources ==
    (IF central.given /\ central.exists /\ ~central.valid THEN {central.path} ELSE {})
    \cup UNION {{[dir |-> d, name |-> n] : n \in {m \in DOMAIN tree[d].docs :
                                                    ~tree[d].docs[m].valid}} :
                d \in DOMAIN tree}

\* C11: a centralized or per-directory source file that is present and does not parse
\* makes load() fail with an error that names the path of such a file; the cycle stops
\* before glob() runs, so the real parseData and store.set are never called.
C11_MalformedSourceAborts ==
    pc # "start" /\ MalformedSources # {} =>
        /\ pc = "failed"
        /\ failure # Absent
        /\ failure.path \in MalformedSources
        /\ validated = <<>>
        /\ stored = <<>>

\* the per-directory document of g does not parse
C11_Witness ==
    /\ pc = "failed"
    /\ failure = Thrown([dir |-> DirG, name |-> "frontmatter.yml"])
    /\ validated = <<>>

\* the merged record of file f of the two-file project, before any title is injected
MergedOf(f, declared) == Combined(Layered(centralMapNow, perDirMapNow, RelPathOf(f)), declared)

\* the record validation is to get for a file whose text reads as "# H ...": the merged
\* record, with the heading as title where the merged record has no title that counts
WithHeadingH(m) ==
    IF "title" \in DOMAIN m /\ Truthy(m["title"]) THEN m ELSE Put(m, "title", TitleH)

\* C12: when reading a content file fails during title injection the failure is caught
\* in the callback: the merged record without an injected title is still forwarded for
\* that file, load() does not fail, and the records of the other files are what they
\* are without the failure.
C12_ReadFailureIsLocal ==
    /\ validated # <<>> => pc # "failed" /\ failure = Absent
    /\ \A i \in DOMAIN validated :
          validated[i].props.data =
              IF files[validated[i].id].read = Absent
              THEN MergedOf(validated[i].id, validated[i].given.data)
              ELSE WithHeadingH(MergedOf(validated[i].id, validated[i].given.data))

\* the read of d/g/a.md failed before d/a.md was handled, and d/a.md got its heading
C12_Witness ==
    /\ Len(validated) = 2
    /\ validated[1].id = "a"
    /\ files["a"].read = Absent
    /\ validated[1].props.data = [description |-> Num(1), sidebar |-> Rec([order |-> Num(1)])]
    /\ validated[2].id = "b"
    /\ validated[2].props.data = [title |-> TitleH]

\* the list of headings store.set is to get: without its first entry when the body has
\* a leading heading and that entry has level 1, unchanged otherwise
HeadingsDue(body, headings) ==
    IF /\ HasLeadingHeading(body)
       /\ headings # Absent
       /\ Len(headings.v) > 0
       /\ headings.v[1].depth = 1
    THEN Some(Tail(headings.v))
    ELSE headings

\* C13 (as claimed): in the store.set interception rendered.metadata.headings loses its
\* first entry exactly when the leading heading of the body was found and that entry
\* has level 1; otherwise (no leading heading, no body, empty list, first entry of
\* another level) the list is forwarded unchanged; never more than one entry goes.
C13_HeadingsFollowBody ==
    \A i \in DOMAIN stored :
        stored[i].given.rendered # Absent =>
            stored[i].entry.rendered.headings =
                HeadingsDue(stored[i].given.body, stored[i].given.rendered.headings)

\* C14: deepMerge is idempotent in its overlay: merging B once more into
\* deepMerge(A, B) gives deepMerge(A, B) again.
C14_MergeIdempotent ==
    pc = "merged again" => mAgain = mResult

\* a merge that combined two records under k and skipped a blocked key, merged again
C14_Witness ==
    /\ pc = "merged again"
    /\ mTarget = [k |-> Rec([x |-> Num(1)]), j |-> Num(1)]
    /\ mSource = [k |-> Rec(("__proto__" :> Num(2)) @@ [x |-> Num(2)])]
    /\ mAgain = Some([k |-> Rec([x |-> Num(2)]), j |-> Num(1)])

\* C15: deepMerge does not mutate its inputs: once it has returned, every object that
\* was in memory before the call, the two inputs and their nested records at every
\* depth, holds what it held, so A and B read as before.
C15_InputsNotMutated ==
    pc = "returned" =>
        /\ \A a \in DOMAIN InputHeap(mTarget, mSource).cells :
              heap.cells[a] = InputHeap(mTarget, mSource).cells[a]
        /\ ValueAt(heap.cells, heap.target) = mTarget
        /\ ValueAt(heap.cells, heap.source) = mSource
        /\ heap.result \notin DOMAIN InputHeap(mTarget, mSource).cells

\* a call that merged a nested record of A with one of B
C15_Witness ==
    /\ pc = "returned"
    /\ mTarget = [k |-> Rec([x |-> Num(1)])]
    /\ mSource = [k |-> Rec([x |-> Num(2)]), j |-> Num(1)]
    /\ ValueAt(heap.cells, heap.result) = [k |-> Rec([x |-> Num(2)]), j |-> Num(1)]
    /\ ValueAt(heap.cells, heap.target) = [k |-> Rec([x |-> Num(1)])]

\* the object deepMerge returns holds the record deepMerge is modelled to return
HeapAgrees ==
    pc = "returned" => ValueAt(heap.cells, heap.result) = mResult.v

\* C16: when glob() reports a content file without a filePath, the parseData wrapper
\* hands the props to the real parseData as they are: the declared data unchanged, no
\* external metadata merged in, no title injected.
C16_NoFilePathPassesThrough ==
    \A i \in DOMAIN validated :
        validated[i].given.filePath = Absent => validated[i].props = validated[i].given

\* a file without a filePath forwarded as declared, blocked key and all, although the
\* project has metadata for d/g/a.md
C16_Witness ==
    /\ PathA \in DOMAIN fmMap
    /\ \E i \in DOMAIN validated :
          /\ validated[i].given.filePath = Absent
          /\ validated[i].given.data = [constructor |-> Num(3), sidebar |-> Rec([label |-> Num(3)])]
          /\ validated[i].props = validated[i].given

\* C19 (as claimed): the heading wins over an external title: for a file that declares
\* no title, whose text can be read and whose body has a leading level-1 heading, and
\* for whose path the centralized or per-directory metadata has a title, the title
\* forwarded to validation is the text of the heading.
C19_HeadingWinsOverExternalTitle ==
    \A i \in DOMAIN validated :
        /\ validated[i].given.filePath # Absent
        /\ "title" \notin DOMAIN validated[i].given.data
        /\ files[validated[i].id].read # Absent
        /\ HasLeadingHeading(Some(files[validated[i].id].body))
        /\ "title" \in DOMAIN Layered(centralMapNow, perDirMapNow, PathA)
        => /\ "title" \in DOMAIN validated[i].props.data
           /\ validated[i].props.data["title"] =
                 Str(extractH1(files[validated[i].id].body).title)

\* the source documents of the project: the centralized file where one is configured
\* and exists, and the per-directory documents
SourceDocuments ==
    (IF central.given /\ central.exists THEN {central.path} ELSE {})
    \cup UNION {{[dir |-> d, name |-> n] : n \in DOMAIN tree[d].docs} : d \in DOMAIN tree}

\* watcher.add was called once, with every source document once
AddedOnceWithAll ==
    /\ Len(watched) = 1
    /\ {watched[1][j] : j \in DOMAIN watched[1]} = SourceDocuments
    /\ Len(watched[1]) = Cardinality(SourceDocuments)

\* C20 (as claimed): in a load cycle watcher.add is invoked if and only if a watcher is
\* present and the set of source documents is not empty, and then exactly once, with
\* the full set.
C20_WatcherAddIffSources ==
    pc # "start" =>
        IF watcher /\ SourceDocuments # {} THEN AddedOnceWithAll ELSE watched = <<>>

\* the same for the load cycles in which the metadata map was built
WatcherAddWhenLoaded ==
    loaded => IF watcher /\ SourceDocuments # {} THEN AddedOnceWithAll ELSE watched = <<>>

\* where the first level-1 heading element is among the parts ps, 0 when there is none
FirstH1Part(ps) ==
    IF \E i \in DOMAIN ps : ps[i] \in H1Elements
    THEN Min({i \in DOMAIN ps : ps[i] \in H1Elements})
    ELSE 0

\* the first part after index i that is not a newline, one past the end when none is
AfterNewlines(ps, i) == Min({j \in (i + 1)..(Len(ps) + 1) : j > Len(ps) \/ ps[j] # Newline})

\* the parts without the element at index i and the newlines right after it
WithoutPart(ps, i) ==
    IF i = 0 THEN ps ELSE SubSeq(ps, 1, i - 1) \o SubSeq(ps, AfterNewlines(ps, i), Len(ps))

\* C17: stripH1Html removes exactly the first h1 element of the markup, with attributes
\* or nested inline content, and the newlines immediately after it; what is before the
\* element and after those newlines is kept as it is, later h1 elements included, and
\* markup without an h1 element is returned unchanged.
C17_FirstHeadingElementRemoved ==
    pc = "returned" /\ stripped # Absent =>
        stripped.v = TextOf(WithoutPart(parts, FirstH1Part(parts)))

\* a paragraph, a heading with nested markup, a newline, a second heading: the
\* paragraph and the second heading are left
C17_Witness ==
    /\ pc = "returned"
    /\ parts = <<ElemP, H1Nested, Newline, H1Attr>>
    /\ stripped = Some(ElemP \o H1Attr)

\* key under the path prefix
Under(prefix, key) == IF prefix = <<>> THEN key ELSE prefix \o <<"/">> \o key

\* what the entry e found under prefix contributes: the record under a key that names a
\* content file, at the path of the keys above it joined with "/"
RECURSIVE Emitted(_, _)
Emitted(prefix, e) ==
    IF e[1] \in FileKeys
    THEN (IF e[2].t = "rec" THEN {[path |-> Under(prefix, e[1]), data |-> e[2].r]} ELSE {})
    ELSE IF e[2].t = "obj"
         THEN UNION {Emitted(Under(prefix, e[1]), e[2].e[j]) : j \in DOMAIN e[2].e}
         ELSE {}

\* the paths the document gives a record
PathsOf(doc) == {m.path : m \in UNION {Emitted(<<>>, doc.e[i]) : i \in DOMAIN doc.e}}

\* the record of path p: that of the last entry of the document that gives it one
RecordOf(doc, p) ==
    (CHOOSE m \in Emitted(<<>>, doc.e[Max({i \in DOMAIN doc.e :
                                            \E n \in Emitted(<<>>, doc.e[i]) : n.path = p})]) :
        m.path = p).data

\* the document written flat: every record under the one key that is its whole path
RECURSIVE FlatEntries(_, _)
FlatEntries(doc, i) ==
    IF i > Len(doc.e) THEN <<>>
    ELSE (IF Emitted(<<>>, doc.e[i]) = {} THEN <<>>
          ELSE << <<(CHOOSE m \in Emitted(<<>>, doc.e[i]) : TRUE).path,
                    Rec((CHOOSE m \in Emitted(<<>>, doc.e[i]) : TRUE).data)>> >>)
         \o FlatEntries(doc, i + 1)

\* the flat writing has no key twice
FlatKeysDistinct(es) == \A i, j \in DOMAIN es : es[i][1] = es[j][1] => i = j

\* C18: flattenToMap takes a key as a leaf exactly when its extension is .md, .mdx or
\* .mdoc, at any depth: the map holds the records found under such keys, each at the
\* path of the keys above it joined with "/", and nothing under any other key; so a
\* document and the same document written with flat keys give the same map, and both
\* shapes mix in one document.
C18_LeafIffContentExtension ==
    pc = "returned" /\ flat # Absent =>
        /\ DOMAIN flat.v = PathsOf(document)
        /\ \A p \in PathsOf(document) : flat.v[p] = RecordOf(document, p)
        /\ FlatKeysDistinct(FlatEntries(document, 1)) =>
              flat.v = flattenToMap(Obj(FlatEntries(document, 1)), <<>>)

\* a document mixing a flat key and a file two directories down
C18_Witness ==
    /\ pc = "returned"
    /\ document = Obj(<< <<PathA, Rec([title |-> TitleC])>>,
                         <<DirG, Obj(<< <<KeyYml, Obj(<< <<FileX, Rec([title |-> TitleP])>> >>)>> >>)>> >>)
    /\ flat = Some((PathA :> [title |-> TitleC])
                   @@ (DirG \o <<"/">> \o KeyYml \o <<"/">> \o FileX :> [title |-> TitleP]))

\* no source contributes: no centralized file is configured or the configured one is
\* missing, and basePath does not exist or no directory under it has a document
NoSourceContributes ==
    /\ ~central.given \/ ~central.exists
    /\ \A d \in DOMAIN tree : DOMAIN tree[d].docs = {}

RECURSIVE PlainOf(_)
PlainOf(ps) == IF ps = <<>> THEN <<>> ELSE Head(ps).plain \o PlainOf(Tail(ps))

\* s without the spaces at its ends
RECURSIVE Unpadded(_)
Unpadded(s) ==
    IF s = <<>> THEN s
    ELSE IF Head(s) = " " THEN Unpadded(Tail(s))
    ELSE IF s[Len(s)] = " " THEN Unpadded(SubSeq(s, 1, Len(s) - 1))
    ELSE s

\* C22: the title extractH1 gives is the text of the heading line after "# " made
\* plain: an image stands for its alt text, a link for its text, bold, italic,
\* strikethrough and inline code for what they enclose, and a "#" in the text stays.
C22_TitleIsPlainText ==
    pc = "returned" /\ parts # <<>> /\ h1 # Absent =>
        /\ h1.v # Absent
        /\ h1.v.title = Unpadded(PlainOf(parts))

\* "C#", a space and an image: the title keeps the "#" and has the alt text
C22_Witness ==
    /\ pc = "returned"
    /\ markdown = <<"#", " ", "C", "#", " ", "!", "[", "A", "]", "(", "u", ")", "\n", "x">>
    /\ h1 = Some([t |-> "h1", title |-> <<"C", "#", " ", "A">>, body |-> <<"x">>])

\* the map holds what the sources of this cycle give: for every path of either source
\* its layered record, and nothing else
MapIsFinal ==
    /\ DOMAIN fmMap = (DOMAIN centralMapNow) \cup (DOMAIN perDirMapNow)
    /\ \A path \in DOMAIN fmMap : fmMap[path] = Layered(centralMapNow, perDirMapNow, path)

\* C23: the metadata map is built once, at the start of the load cycle, before any
\* callback of a file is handled: it changes only in the step that leaves the start of
\* load(), when nothing has been validated or stored, and at every step in which the
\* real parseData or store.set is called it has its final content and keeps it.
C23_MapBuiltBeforeCallbacks ==
    [][ /\ fmMap' # fmMap => pc = "start" /\ pc' # "start" /\ validated = <<>> /\ stored = <<>>
        /\ validated' # validated \/ stored' # stored => MapIsFinal /\ fmMap' = fmMap ]_vars

\* a file was validated against a map that has its path
C23_Witness ==
    /\ pc = "globbing"
    /\ Len(validated) = 1
    /\ fmMap = (PathA :> [title |-> TitleC, sidebar |-> Rec([order |-> Num(1), label |-> Num(2)])])

\* C24: the parseData callbacks of distinct files can run in any order: the records of
\* the map are, as objects in memory, what they were when the map was built, also after
\* a title was set on a merged record, and the record forwarded for a file is the one
\* its callback gives when it runs alone on the map as built.
C24_CallbacksShareNothing ==
    loaded =>
        /\ DOMAIN heap.at = DOMAIN fmMap
        /\ \A p \in DOMAIN fmMap : ValueAt(heap.cells, heap.at[p]) = fmMap[p]
        /\ \A i \in DOMAIN validated :
              validated[i].props.data =
                  WrappedData(fmMap, validated[i].given, files[validated[i].id].read)

\* d/g/a.md was handled first and got its heading as title over the record of the map,
\* then d/a.md; the record of the map has no title still
C24_Witness ==
    /\ Len(validated) = 2
    /\ validated[1].id = "a"
    /\ PathA \in DOMAIN fmMap
    /\ fmMap[PathA] = [description |-> Num(1), sidebar |-> Rec([order |-> Num(1)])]
    /\ validated[1].props.data =
          [title |-> TitleH, description |-> Num(1), sidebar |-> Rec([order |-> Num(1)])]
    /\ ValueAt(heap.cells, heap.at[PathA]) = fmMap[PathA]

\* the directories the discovery visits: basePath, and below a visited directory every
\* directory whose name neither starts with "." nor is node_modules
RECURSIVE VisitedFrom(_, _)
VisitedFrom(fs, dir) ==
    IF dir \notin DOMAIN fs THEN {}
    ELSE {dir} \cup UNION {VisitedFrom(fs, Under(dir, n)) :
                             n \in {m \in fs[dir].subdirs : Head(m) # "." /\ m # DirModules}}

\* the one document of directory d that counts: frontmatter.yml before
\* frontmatter.yaml before frontmatter.json
ChosenIn(fs, d) ==
    IF "frontmatter.yml" \in DOMAIN fs[d].docs THEN {[dir |-> d, name |-> "frontmatter.yml"]}
    ELSE IF "frontmatter.yaml" \in DOMAIN fs[d].docs
         THEN {[dir |-> d, name |-> "frontmatter.yaml"]}
         ELSE IF "frontmatter.json" \in DOMAIN fs[d].docs
              THEN {[dir |-> d, name |-> "frontmatter.json"]}
              ELSE {}

ChosenDocuments(fs) == UNION {ChosenIn(fs, d) : d \in VisitedFrom(fs, <<>>)}

\* the entries document c gives: one for each of its keys with a record value, at the
\* directory's path joined to the key
EntriesOf(fs, c) ==
    {[path |-> Under(c.dir, fs[c.dir].docs[c.name].doc.e[j][1]),
      data |-> fs[c.dir].docs[c.name].doc.e[j][2].r,
      depth |-> Len(c.dir)] :
        j \in {k \in DOMAIN fs[c.dir].docs[c.name].doc.e :
                  fs[c.dir].docs[c.name].doc.e[k][2].t = "rec"}}

AllEntries(fs) == UNION {EntriesOf(fs, c) : c \in ChosenDocuments(fs)}

\* C25: discoverPerDirFiles takes at most one document per visited directory, by the
\* priority frontmatter.yml, frontmatter.yaml, frontmatter.json; a document of lower
\* priority in the same directory is neither parsed (it cannot make the load fail) nor
\* merged; every top-level key with a record value of a chosen document is an entry at
\* the directory's path relative to basePath joined to the key with "/", the key alone
\* at the root, the deeper directory winning a path two documents give.
C25_OneDocumentPerDirectory ==
    /\ pc # "start" =>
          (pc = "failed" <=>
              \E c \in ChosenDocuments(tree) : ~tree[c.dir].docs[c.name].valid)
    /\ loaded /\ ~central.given =>
          /\ DOMAIN fmMap = {e.path : e \in AllEntries(tree)}
          /\ \A e \in AllEntries(tree) :
                (\A o \in AllEntries(tree) : o.path = e.path => o.depth <= e.depth)
                    => fmMap[e.path] = e.data

\* g has frontmatter.yaml and frontmatter.json, g/s a frontmatter.yml beside a
\* frontmatter.json that does not parse: the yaml and the yml documents are in the map
C25_Witness ==
    /\ loaded
    /\ ~central.given
    /\ DOMAIN tree[DirG].docs = {"frontmatter.yaml", "frontmatter.json"}
    /\ DOMAIN tree[joinPath(DirG, DirS)].docs = {"frontmatter.yml", "frontmatter.json"}
    /\ DOMAIN tree[<<>>].docs = {}
    /\ fmMap = (PathA :> RecY) @@ (DirG \o <<"/">> \o DirS \o <<"/">> \o FileB :> RecY)

\* the documents collectFrontmatterFilePaths is to give: the centralized file when
\* it is configured and exists, and the one chosen document of every visited directory
ExpectedPaths ==
    (IF central.given /\ central.exists THEN {central.path} ELSE {}) \cup ChosenDocuments(tree)

\* the paths given to watcher.add
WatchedPaths == IF watched = <<>> THEN {} ELSE {watched[1][j] : j \in DOMAIN watched[1]}

\* C27: collectFrontmatterFilePaths returns the centralized file, when configured and
\* existing, and the documents discoverPerDirFiles parses for the same basePath, each
\* once: the one document of highest priority of every directory that is neither hidden
\* nor node_modules, so that every entry of the per-directory map comes from a returned
\* document; and the empty list when there is none.
C27_CollectedAreTheParsed ==
    loaded =>
        /\ WatchedPaths = ExpectedPaths
        /\ IF ExpectedPaths = {} THEN watched = <<>>
           ELSE Len(watched) = 1 /\ Len(watched[1]) = Cardinality(ExpectedPaths)
        /\ ~central.given =>
              \A p \in DOMAIN fmMap :
                 \E c \in WatchedPaths, e \in AllEntries(tree) :
                    e \in EntriesOf(tree, c) /\ e.path = p /\ e.data = fmMap[p]

\* the centralized file, frontmatter.yaml of g (frontmatter.json beside it) and
\* frontmatter.yml of g/s are returned; the documents of .h and node_modules are not
C27_Witness ==
    /\ loaded
    /\ central.given /\ central.exists
    /\ DOMAIN tree[DirG].docs = {"frontmatter.yaml", "frontmatter.json"}
    /\ DOMAIN tree[DirHidden].docs = {"frontmatter.yml"}
    /\ watched = << <<central.path,
                      [dir |-> DirG, name |-> "frontmatter.yaml"],
                      [dir |-> joinPath(DirG, DirS), name |-> "frontmatter.yml"]>> >>

\* nothing exists: the empty list, and watcher.add is not called
C27_NothingExists ==
    /\ loaded
    /\ ExpectedPaths = {}
    /\ watched = <<>>

\* the record the centralized file gives for path p now, empty when it gives none
CentralNow(p) ==
    IF central.given /\ central.exists /\ central.valid
          /\ \E j \in DOMAIN central.doc.e : central.doc.e[j][1] = p
    THEN (CHOOSE e \in {central.doc.e[j] : j \in DOMAIN central.doc.e} : e[1] = p)[2].r
    ELSE EmptyData

\* the record the per-directory documents give for path p now, empty when they give none
PerDirNow(p) ==
    IF \E e \in AllEntries(tree) : e.path = p
    THEN (CHOOSE e \in AllEntries(tree) :
             e.path = p /\ \A o \in AllEntries(tree) : o.path = p => o.depth <= e.depth).data
    ELSE EmptyData

\* the paths the sources provide now
PathsNow ==
    {e.path : e \in AllEntries(tree)}
    \cup (IF central.given /\ central.exists /\ central.valid
          THEN {central.doc.e[j][1] : j \in DOMAIN central.doc.e} ELSE {})

\* C26: nothing is kept from one load cycle to the next: in every cycle in which the
\* map is built, the first or a later one, the callbacks merge exactly what the sources
\* hold at that cycle's load: the paths of the map are the paths the sources provide
\* now, and each record is the centralized record overlaid with the per-directory one.
C26_NothingCachedAcrossCycles ==
    loaded =>
        /\ DOMAIN fmMap = PathsNow
        /\ \A p \in PathsNow :
              fmMap[p] = [k \in DOMAIN CentralNow(p) \cup DOMAIN PerDirNow(p) |->
                            IF k \in DOMAIN PerDirNow(p) THEN PerDirNow(p)[k]
                            ELSE CentralNow(p)[k]]

\* a second cycle after one that watched frontmatter.yml of g: the document was deleted
\* and the centralized file removed, and the map of the second cycle is empty
C26_Witness ==
    /\ loaded
    /\ Len(watched) = 1
    /\ watched[1] = <<central.path, [dir |-> DirG, name |-> "frontmatter.yml"]>>
    /\ ~central.exists
    /\ tree[DirG].docs = NoDocs
    /\ fmMap = EmptyMap
    /\ Len(validated) = 1

\* a second cycle in which g has frontmatter.json where the first had frontmatter.yml:
\* g/a.md has the record of the new document
C26_Edited ==
    /\ loaded
    /\ Len(watched) = 2
    /\ watched[1] = <<[dir |-> DirG, name |-> "frontmatter.yml"]>>
    /\ watched[2] = <<[dir |-> DirG, name |-> "frontmatter.json"]>>
    /\ fmMap = (PathA :> RecJ)

\* C28 (as claimed): the body handed to the heading extractor is the file text after a
\* leading fence that a first line of exactly "---" opens and a later line of exactly
\* "---" closes; a line that only begins with "---" does not close it, and without such
\* a fence the body is the entire text. The title forwarded for a file without declared
\* or external title is then the first level-1 heading of that body.
C28_BodyAfterExactFence ==
    \A i \in DOMAIN validated :
        /\ Slice(files[validated[i].id].read.v, FenceLength(files[validated[i].id].read.v))
              = AfterFence(SplitLines(files[validated[i].id].read.v))
        /\ validated[i].props.data
              = withTitle(EmptyData,
                          extractH1(AfterFence(SplitLines(files[validated[i].id].read.v))))

\* a file with a fence of exact lines, for which the claimed body is the one handed over
C28_ExactFence ==
    /\ Len(validated) = 1
    /\ files["a"].read.v = JoinLines(<<Dashes, <<"#", " ", "A">>, Dashes, <<"#", " ", "B">>>>)
    /\ validated[1].props.data = [title |-> Str(<<"B">>)]

\* C28: a line that only begins with "---" closes the fence in the title injection: of
\* the text "---", "# A", "----" the extractor gets "-" and no title is injected, where
\* the entire text with its heading A was to be the body
C28_LongerLineClosesFence ==
    /\ Len(validated) = 1
    /\ files["a"].read.v = JoinLines(<<Dashes, <<"#", " ", "A">>, Dashes \o <<"-">>>>)
    /\ validated[1].props.data = EmptyData

\* the title the parse-metadata step injected for call i, Absent when it injected none
InjectedTitle(i) == titleOf(validated[i].props.data)

\* C30 (as claimed): for a file whose stored body is the file text after its metadata
\* fence the two scans agree: when the parse-metadata step injected a title, the
\* finalize step strips a leading heading from the body and the injected title is the
\* plain-text title of that heading; when the finalize step finds no heading, no title
\* was injected.
C30_HeadingScansAgree ==
    \A i \in DOMAIN validated, k \in DOMAIN stored :
        stored[k].id = validated[i].id /\ stored[k].given.body.v # <<>> =>
            /\ InjectedTitle(i) # Absent =>
                  /\ stored[k].entry.body # stored[k].given.body
                  /\ extractH1(stored[k].given.body.v) # Absent
                  /\ InjectedTitle(i) = Str(extractH1(stored[k].given.body.v).title)
            /\ stored[k].entry.body = stored[k].given.body => InjectedTitle(i) = Absent

\* C30: of the text "---", "t", "--- ", "# B" the stored body is the whole text, in
\* which the finalize step finds no leading heading and strips nothing, and the
\* parse-metadata step has injected the title B
C30_InjectedButNotStripped ==
    /\ Len(stored) = 1
    /\ files["a"].read.v = JoinLines(<<Dashes, <<"t">>, Dashes \o <<" ">>, <<"#", " ", "B">>>>)
    /\ validated[1].props.data = [title |-> Str(<<"B">>)]
    /\ stored[1].entry.body = Some(files["a"].read.v)

\* the latest call of the real parseData and of the real store.set
LastValidated == validated'[Len(validated')]
LastStored == stored'[Len(stored')]

\* the wrapper's call of parseData was passed on once, with the id it was given and the
\* data of the wrapper, and its result came back
ParseDelegatedOnce ==
    /\ Len(validated') = Len(validated) + 1
    /\ validated' = Append(validated, LastValidated)
    /\ stored' = stored
    /\ LastValidated.props.id = LastValidated.given.id
    /\ LastValidated.props.data =
          IF LastValidated.given.filePath = Absent THEN LastValidated.given.data
          ELSE WrappedData(fmMap, LastValidated.given, files[LastValidated.id].read)
    /\ LastValidated.returned = LastValidated.result

\* the wrapper's call of store.set was passed on once, with the id and the data it was
\* given, and its result came back
SetDelegatedOnce ==
    /\ Len(stored') = Len(stored) + 1
    /\ stored' = Append(stored, LastStored)
    /\ validated' = validated
    /\ LastStored.entry.id = LastStored.given.id
    /\ LastStored.entry.data = LastStored.given.data
    /\ LastStored.returned = LastStored.result

\* C29: every call glob() makes through the wrapped context is delegated exactly once:
\* a parseData call makes one call of the real parseData with the id it was given and
\* the merged data, a store.set call one call of the real store.set with the same id and
\* the same data, and the wrapper returns what the real function returned, a rejection
\* included.
C29_DelegatedExactlyOnce ==
    [][pc = "globbing" /\ pc' = "globbing" => ParseDelegatedOnce \/ SetDelegatedOnce]_vars

\* both wrappers were called for a file with external metadata: each real function was
\* called once, and the results came back
C29_Witness ==
    /\ Len(validated) = 1
    /\ Len(stored) = 1
    /\ validated[1].given.filePath # Absent
    /\ validated[1].props.data # validated[1].given.data
    /\ validated[1].returned = Resolved(Num(2))
    /\ stored[1].returned = Resolved(Num(0))
    /\ stored[1].entry.data = validated[1].props.data

=============================================================================
